---- MODULE Spec2Model ----
(***************************************************************************)
(* A model of the CPUID topology enumeration sample                        *)
(* (intel/SDM-Processor-Topology-Enumeration): the shift calculator, the   *)
(* legacy and modern (leaf 0Bh / 1Fh) topology decoders and the cache /    *)
(* TLB grouping passes, together with the CPUID query primitive they read. *)
(*                                                                         *)
(* A C `unsigned int` is modelled as a 32-bit word: the set of the         *)
(* positions of its set bits (bit 0 is the least significant).  The model  *)
(* checker's integers are signed 32-bit, so a word such as 0xFFFFFFFF has  *)
(* no integer value; the bitwise operators of the source are exact on the  *)
(* set representation and the few arithmetic ones (+1, -1) are defined     *)
(* modulo 2^32.  Values the source keeps small (shift counts, array        *)
(* indices, 8- and 12-bit fields) are plain integers.                      *)
(***************************************************************************)
EXTENDS Integers, Sequences, FiniteSets, TLC

\* ------------------------------------------------------------------------
\* 32-bit words
\* ------------------------------------------------------------------------

BitPositions == 0..31

ZeroWord == {}

AllOnes == BitPositions

\* The word holding the integer n, 0 <= n < 2^31.
BitsOf(n) == {i \in 0..30 : (n \div (2^i)) % 2 = 1}

RECURSIVE SumOfBits(_)
SumOfBits(w) ==
    IF w = {} THEN 0
    ELSE LET i == CHOOSE j \in w : TRUE IN (2^i) + SumOfBits(w \ {i})

\* The integer a word holds; only used on words whose bit 31 is clear.
ValueOf(w) == SumOfBits(w)

\* a & b
BitAnd(a, b) == a \cap b

\* a | b
BitOr(a, b) == a \cup b

\* ~a
BitNot(a) == BitPositions \ a

\* a >> n
ShiftRight(a, n) == {i - n : i \in {j \in a : j >= n}}

\* a << n (bits shifted beyond bit 31 are lost)
ShiftLeft(a, n) == {i + n : i \in {j \in a : j + n <= 31}}

MinBit(w) == CHOOSE i \in w : \A j \in w : i <= j

MaxBit(w) == CHOOSE i \in w : \A j \in w : i >= j

\* a + 1 modulo 2^32
Increment(a) ==
    IF a = AllOnes THEN ZeroWord
    ELSE LET k == MinBit(BitPositions \ a) IN {i \in a : i > k} \cup {k}

\* a - 1 modulo 2^32
Decrement(a) ==
    IF a = ZeroWord THEN AllOnes
    ELSE LET k == MinBit(a) IN {i \in a : i > k} \cup (0..(k - 1))

\* A comparison that always succeeds.
UnsignedLessEq_Always(a, b) == TRUE

\* a <= b, unsigned
UnsignedLessEq(a, b) ==
    IF a = b THEN TRUE
    ELSE LET d == (a \ b) \cup (b \ a) IN MaxBit(d) \in b

\* ------------------------------------------------------------------------
\* Bounds of the model
\* ------------------------------------------------------------------------

\* Tools_CreateTopologyShift is applied to every count up to MaxShiftCount
\* and to the counts around every power of two up to 2^MaxShiftPower.
MaxShiftCount == 70

MaxShiftPower == 20
\* The longest recorded leaf 0Bh / 1Fh subleaf table.
MaxTopoSubleafs == 3
\* The CPUID.1.EBX[23:16] values 0..MaxLegacyIds and the CPUID.4.0.EAX[31:26]
\* values 0..MaxLegacyCoreField are tried, with the largest of each field.
MaxLegacyIds == 4
MaxLegacyCoreField == 2
\* Uniform systems have 2^t threads per core and 2^c cores per package for
\* t, c up to this.
MaxUniformLog == 2
\* The longest leaf 4 table drawn from the cache subleaf kinds, and the most
\* distinct caches one processor reports.
MaxCacheSubleafs == 2
MaxDistinctCaches == 11
\* The longest leaf 18h table drawn from the TLB subleaf kinds.
MaxTlbSubleafs == 2
\* The gatherer runs on up to this many processors with arrays of up to
\* this many entries (and once past MAX_PROCESSORS).
MaxGatherProcessors == 3
MaxGatherCapacity == 3
\* Tools_SetAffinity is called on platforms of up to this many simulated
\* processors (and on one of MAX_PROCESSORS).
MaxAffinityProcessors == 3
\* File_WriteCpuidToFile runs on machines of up to this many processors.
MaxFileProcessors == 3

\* ------------------------------------------------------------------------
\* Program constants (cpuid_topology.h)
\* ------------------------------------------------------------------------

MAX_PROCESSORS == 1024

MAX_SIMULATED_LEAFS == 32

MAX_SIMULATED_SUBLEAFS == 10

MAX_CACHE_PER_LP == 10

MAX_TLB_PER_LP == 25

MAXIMUM_DOMAINS == 32
\* ((unsigned int)-1), never a valid index
INVALID_CACHE_INDEX == -1
INVALID_TLB_INDEX == -1

\* ------------------------------------------------------------------------
\* State
\* ------------------------------------------------------------------------

VARIABLES
    cmd,        \* the entry point that runs
    pc,         \* the position of the program
    count,      \* argument of Tools_CreateTopologyShift (a word)
    Shift,      \* its result
    \* g_GlobalData.  With UseNativeCpuid the Simulated* tables stand for
    \* the answers of the CPUID instruction on the machine itself.
    UseNativeCpuid,
    SimulatedCpuid,                 \* leaf -> sequence of subleaf registers
    SimulatedCpuidLeaf4,            \* processor -> subleaf registers
    SimulatedCpuidLeaf18,           \* processor -> subleaf registers
    SimulatedApicIds,               \* processor -> APIC id (a word)
    NumberOfSimulatedProcessors,
    CurrentProcessorAffinity,
    \* locals of the topology decoders
    Leaf,
    Subleaf,
    CpuidRegisters,
    LogicalProcessorShift,
    PackageShift,
    ApicidBitLayoutCtx,
    bFoundUnknownDomain,
    FoundTopologyInfo,
    \* history: the subleafs whose loop body ran in the current decoder
    \* pass, and the counts passed to Tools_CreateTopologyShift so far
    visited,
    shiftCalls,
    \* locals of the cache and TLB passes
    ProcessorIndex,
    SubleafIndex,                   \* a word in the TLB pass
    MaxSubleaf,                     \* a word
    NumberOfProcessors,
    ApicIdList,
    pCacheInfo,
    NumberOfCaches,
    pTlbInfo,
    NumberOfTlbs,
    \* history: for each group, the registers of the subleaf each of its
    \* members was appended for
    appended,
    \* parameters and locals of Tools_GatherPlatformApicIds
    pApicIdArray,                   \* index -> word, the entries written
    ArraySize,
    Index,
    \* history: the leaf each entry of pApicIdArray was taken from
    strategies,
    \* locals of File_WriteCpuidToFile and the lines written to the file
    MaximumLeaf,                    \* a word
    CpuidFile,
    \* history: the leaf each "A" line of the file was taken from
    apicLineLeaves

platformVars == <<UseNativeCpuid, SimulatedCpuid, SimulatedCpuidLeaf4,
                  SimulatedCpuidLeaf18, SimulatedApicIds,
                  NumberOfSimulatedProcessors>>

cpuVars == <<Leaf, Subleaf, CpuidRegisters, LogicalProcessorShift,
             PackageShift, ApicidBitLayoutCtx, bFoundUnknownDomain,
             FoundTopologyInfo, visited>>

groupVars == <<ProcessorIndex, SubleafIndex, MaxSubleaf, NumberOfProcessors,
               ApicIdList, pCacheInfo, NumberOfCaches, pTlbInfo, NumberOfTlbs,
               appended>>

gatherVars == <<pApicIdArray, ArraySize, Index, strategies>>

fileVars == <<MaximumLeaf, CpuidFile, apicLineLeaves>>

vars == <<cmd, pc, count, Shift, platformVars, CurrentProcessorAffinity,
          cpuVars, shiftCalls, groupVars, gatherVars, fileVars>>

\* ------------------------------------------------------------------------
\* CPUID registers and the query primitive
\* ------------------------------------------------------------------------

\* CPUID_REGISTERS after memset(0).
ZeroRegisters == [Eax |-> ZeroWord, Ebx |-> ZeroWord, Ecx |-> ZeroWord, Edx |-> ZeroWord]

\* table[Subleaf] of a register table whose entries beyond its recorded
\* length are zero.  sub is a word.
TableEntry(table, sub) ==
    IF sub \subseteq 0..7 /\ ValueOf(sub) < Len(table)
    THEN table[ValueOf(sub) + 1]
    ELSE ZeroRegisters

\* The per-processor table of processor p (0-based); a processor without a
\* recorded table has an all-zero one.
ProcessorTable(tables, p) ==
    IF p < Len(tables) THEN tables[p + 1] ELSE <<>>

ApicIdOf(p) ==
    IF p < Len(SimulatedApicIds) THEN SimulatedApicIds[p + 1] ELSE ZeroWord

SymmetricTable(leaf) ==
    IF leaf \in DOMAIN SimulatedCpuid THEN SimulatedCpuid[leaf] ELSE <<>>

\* Os_Platform_Read_Cpuid on processor aff: the CPUID instruction.  Leaf 4
\* and leaf 18h are per processor; leaf 0Bh and 1Fh return the x2APIC id
\* of the processor in EDX and leaf 1 its initial APIC id in EBX[31:24].
Os_Platform_Read_Cpuid(aff, leaf, sub) ==
    IF leaf = 4 THEN TableEntry(ProcessorTable(SimulatedCpuidLeaf4, aff), sub)
    ELSE IF leaf = 24 THEN TableEntry(ProcessorTable(SimulatedCpuidLeaf18, aff), sub)
    ELSE LET r == TableEntry(SymmetricTable(leaf), sub) IN
         IF leaf \in {11, 31} THEN [r EXCEPT !.Edx = ApicIdOf(aff)]
         ELSE IF leaf = 1
              THEN [r EXCEPT !.Ebx = BitOr(BitAnd(r.Ebx, 0..23),
                                           ShiftLeft(ApicIdOf(aff), 24))]
              ELSE r

\* The simulated branch of Tools_ReadCpuid with the affinity aff.
SimulatedReadCpuid(aff, leaf, sub) ==
    IF ~(leaf < MAX_SIMULATED_LEAFS) THEN ZeroRegisters
    ELSE IF ~(sub \subseteq 0..7 /\ ValueOf(sub) < MAX_SIMULATED_SUBLEAFS) THEN ZeroRegisters
    ELSE IF leaf = 4 THEN TableEntry(ProcessorTable(SimulatedCpuidLeaf4, aff), sub)
    ELSE IF leaf = 24 THEN TableEntry(ProcessorTable(SimulatedCpuidLeaf18, aff), sub)
    ELSE LET r == TableEntry(SymmetricTable(leaf), sub)
             r3 == IF leaf \in {11, 31} /\ r.Ebx # ZeroWord
                   THEN [r EXCEPT !.Edx = ApicIdOf(aff)]
                   ELSE r
         IN IF leaf = 1
            THEN [r3 EXCEPT !.Ecx = BitOr(BitAnd(r3.Ecx, BitNot(ShiftLeft(BitsOf(255), 24))),
                                          ShiftLeft(ApicIdOf(aff), 24))]
            ELSE r3

\* Tools_ReadCpuid as issued with the affinity aff.
ReadCpuidOn(aff, leaf, sub) ==
    IF UseNativeCpuid
    THEN Os_Platform_Read_Cpuid(aff, leaf, sub)
    ELSE SimulatedReadCpuid(aff, leaf, sub)

\* Tools_ReadCpuid(Leaf, Subleaf), Subleaf an integer index.
Tools_ReadCpuid(leaf, sub) ==
    ReadCpuidOn(CurrentProcessorAffinity, leaf, BitsOf(sub))

\* Tools_GetNumberOfProcessors
Tools_GetNumberOfProcessors == NumberOfSimulatedProcessors

\* An affinity that takes any processor number.
AffinityAfterSet_Unchecked(aff, p) == p

\* The affinity after Tools_SetAffinity(p) issued with the affinity aff.
AffinityAfterSet(aff, p) ==
    IF UseNativeCpuid THEN p
    ELSE IF p < NumberOfSimulatedProcessors THEN p ELSE aff

\* A check that takes every domain type for a known one.
Tools_IsDomainKnownEnumeration_AnyType(Domain) == TRUE

\* Tools_IsDomainKnownEnumeration: the 7 codes InvalidDomain..DieGrpDomain.
Tools_IsDomainKnownEnumeration(Domain) == Domain \in 0..6

\* A gatherer that always falls back to the legacy 8-bit APIC id.
GatheredApicId_LegacyOnly(aff, index) ==
    ShiftRight(ReadCpuidOn(AffinityAfterSet(aff, index), 1, ZeroWord).Ebx, 24)

\* One iteration of the loop of Tools_GatherPlatformApicIds for processor
\* Index: the identifier found after Tools_SetAffinity(Index).
GatheredApicId(aff, index) ==
    LET at == AffinityAfterSet(aff, index)
        MaxLeaf == ReadCpuidOn(aff, 0, ZeroWord).Eax
        r1F == ReadCpuidOn(at, 31, ZeroWord)
        rB == ReadCpuidOn(at, 11, ZeroWord)
        r1 == ReadCpuidOn(at, 1, ZeroWord)
    IN IF UnsignedLessEq(BitsOf(31), MaxLeaf) /\ r1F.Ebx # ZeroWord THEN r1F.Edx
       ELSE IF UnsignedLessEq(BitsOf(11), MaxLeaf) /\ rB.Ebx # ZeroWord THEN rB.Edx
       ELSE ShiftRight(r1.Ebx, 24)

\* The leaf that iteration takes the identifier from.
GatherStrategy(aff, index) ==
    LET at == AffinityAfterSet(aff, index)
        MaxLeaf == ReadCpuidOn(aff, 0, ZeroWord).Eax
    IN IF UnsignedLessEq(BitsOf(31), MaxLeaf)
       THEN (IF ReadCpuidOn(at, 31, ZeroWord).Ebx # ZeroWord THEN 31
             ELSE IF UnsignedLessEq(BitsOf(11), MaxLeaf)
                  THEN (IF ReadCpuidOn(at, 11, ZeroWord).Ebx # ZeroWord THEN 11 ELSE 1)
                  ELSE 1)
       ELSE IF UnsignedLessEq(BitsOf(11), MaxLeaf)
            THEN (IF ReadCpuidOn(at, 11, ZeroWord).Ebx # ZeroWord THEN 11 ELSE 1)
            ELSE 1

\* The number of entries Tools_GatherPlatformApicIds fills.
GatherCount(size) ==
    LET n == IF Tools_GetNumberOfProcessors > MAX_PROCESSORS
             THEN MAX_PROCESSORS ELSE Tools_GetNumberOfProcessors
    IN IF n < size THEN n ELSE size

RECURSIVE AffinityAfterGather(_, _, _)
AffinityAfterGather(aff, index, n) ==
    IF index >= n THEN aff
    ELSE AffinityAfterGather(AffinityAfterSet(aff, index), index + 1, n)

RECURSIVE GatherLoop(_, _, _, _)
GatherLoop(aff, index, n, acc) ==
    IF index >= n THEN acc
    ELSE GatherLoop(AffinityAfterSet(aff, index), index + 1, n,
                    Append(acc, GatheredApicId(aff, index)))

\* Tools_GatherPlatformApicIds(pApicIdArray, ArraySize): the array filled.
Tools_GatherPlatformApicIds(size) ==
    GatherLoop(CurrentProcessorAffinity, 0, GatherCount(size), <<>>)

\* The affinity Tools_GatherPlatformApicIds leaves behind.
AffinityAfterGatherCall(size) ==
    AffinityAfterGather(CurrentProcessorAffinity, 0, GatherCount(size))

\* ------------------------------------------------------------------------
\* Initial values
\* ------------------------------------------------------------------------

\* APICID_BIT_LAYOUT_CTX after memset(0).  DomainRelativeMasks holds the
\* entries written so far; every other entry of the 32 x 32 table is zero.
ZeroLayoutCtx ==
    [NumberOfApicIdBits |-> 0,
     ShiftValues |-> [i \in 0..(MAXIMUM_DOMAINS - 1) |-> 0],
     ShiftValueDomain |-> [i \in 0..(MAXIMUM_DOMAINS - 1) |-> 0],
     DomainRelativeMasks |-> <<>>,
     PackageDomainIndex |-> 0]

\* g_GlobalData with nothing loaded.
NoPlatform ==
    /\ UseNativeCpuid = TRUE
    /\ SimulatedCpuid = <<>>
    /\ SimulatedCpuidLeaf4 = <<>>
    /\ SimulatedCpuidLeaf18 = <<>>
    /\ SimulatedApicIds = <<>>
    /\ NumberOfSimulatedProcessors = 0
    /\ CurrentProcessorAffinity = 0

\* The locals of the topology decoders before any of them ran.
IdleCpuLocals ==
    /\ Leaf = 0
    /\ Subleaf = 0
    /\ CpuidRegisters = ZeroRegisters
    /\ LogicalProcessorShift = 0
    /\ PackageShift = 0
    /\ ApicidBitLayoutCtx = ZeroLayoutCtx
    /\ bFoundUnknownDomain = FALSE
    /\ FoundTopologyInfo = 0
    /\ visited = <<>>
    /\ shiftCalls = {}

\* The locals of the cache and TLB passes before any of them ran.
IdleGroupLocals ==
    /\ ProcessorIndex = 0
    /\ SubleafIndex = ZeroWord
    /\ MaxSubleaf = ZeroWord
    /\ NumberOfProcessors = 0
    /\ ApicIdList = <<>>
    /\ pCacheInfo = <<>>
    /\ NumberOfCaches = 0
    /\ pTlbInfo = <<>>
    /\ NumberOfTlbs = 0
    /\ appended = <<>>

\* The caller's array with nothing written, before the gatherer ran.
IdleGatherLocals ==
    /\ pApicIdArray = <<>>
    /\ ArraySize = 0
    /\ Index = 0
    /\ strategies = <<>>

\* The locals of File_WriteCpuidToFile before it ran; no file is open.
IdleFileLocals ==
    /\ MaximumLeaf = ZeroWord
    /\ CpuidFile = <<>>
    /\ apicLineLeaves = <<>>

\* ------------------------------------------------------------------------
\* Tools_CreateTopologyShift
\* ------------------------------------------------------------------------

\* The for loop of Tools_CreateTopologyShift: Index = 1 << s walks down from
\* bit 31 and the loop breaks at the first set bit of n.  When Index reaches
\* zero the loop ends with Shift decremented below zero (0xFFFFFFFF),
\* written -1 here.
RECURSIVE TopologyShiftLoop(_, _)
TopologyShiftLoop(n, s) ==
    IF s < 0 THEN s
    ELSE IF BitAnd(n, {s}) # ZeroWord THEN s
    ELSE TopologyShiftLoop(n, s - 1)

\* A slip in the rounding: count*2 without the -1.
CreateTopologyShift_NoMinusOne(c) ==
    TopologyShiftLoop(ShiftLeft(c, 1), 31)

\* Tools_CreateTopologyShift(count), count a word: count = (count*2) - 1 in
\* 32-bit arithmetic, then the position of the highest set bit.
Tools_CreateTopologyShift(c) ==
    TopologyShiftLoop(Decrement(ShiftLeft(c, 1)), 31)

\* The counts the shift calculator is exercised on.
ShiftCounts ==
    (1..MaxShiftCount)
    \cup {2^k : k \in 0..MaxShiftPower}
    \cup {2^k + 1 : k \in 0..(MaxShiftPower - 1)}
    \cup {2^k - 1 : k \in 1..MaxShiftPower}
    \cup {1000000}

InitShift ==
    /\ cmd = "shift"
    /\ pc = "start"
    /\ count \in {BitsOf(c) : c \in ShiftCounts}
    /\ Shift = 0
    /\ NoPlatform
    /\ IdleCpuLocals
    /\ IdleGroupLocals
    /\ IdleGatherLocals
    /\ IdleFileLocals

CallCreateTopologyShift ==
    /\ cmd = "shift"
    /\ pc = "start"
    /\ Shift' = Tools_CreateTopologyShift(count)
    /\ pc' = "done"
    /\ UNCHANGED <<fileVars, gatherVars, cmd, count, platformVars, CurrentProcessorAffinity, cpuVars,
                   shiftCalls, groupVars>>

NextShift == CallCreateTopologyShift

SpecShift == InitShift /\ [][NextShift]_vars

\* ------------------------------------------------------------------------
\* ParseCpu_Internal_CreateDomainMaskMatrix
\* ------------------------------------------------------------------------

\* A mask without the complement: (1 << PreviousBit) - 1.
GlobalDomainMask_NoNot(PreviousBit) ==
    Decrement(ShiftLeft(BitsOf(1), PreviousBit))

\* ~((1 << PreviousBit) - 1)
GlobalDomainMask(PreviousBit) ==
    BitNot(Decrement(ShiftLeft(BitsOf(1), PreviousBit)))

\* A first loop that never advances PreviousBit.
DiagonalMask_NoPrevious(ctx, i) == AllOnes

\* The first loop: DomainRelativeMasks[i][i] for i = 0..PackageDomainIndex,
\* PreviousBit being 0 and then ShiftValues[i - 1].
DiagonalMask(ctx, i) ==
    GlobalDomainMask(IF i = 0 THEN 0 ELSE ctx.ShiftValues[i - 1])

\* A second loop that keeps the bits of the higher domain instead of
\* removing them.
CreateDomainMaskMatrix_KeepsUpper(ctx) ==
    LET N == ctx.PackageDomainIndex
        written == {<<i, j>> \in (0..N) \X (0..N) : i <= j}
    IN [ctx EXCEPT !.DomainRelativeMasks =
        [ij \in written |->
            IF ij[1] = ij[2] THEN AllOnes \ (0..((IF ij[1] = 0 THEN 0 ELSE ctx.ShiftValues[ij[1] - 1]) - 1))
            ELSE AllOnes \ (0..(ctx.ShiftValues[ij[2] - 1] - 1))]]

\* ParseCpu_Internal_CreateDomainMaskMatrix(pApicidBitLayoutCtx)
CreateDomainMaskMatrix(ctx) ==
    LET N == ctx.PackageDomainIndex
        written == {<<i, j>> \in (0..N) \X (0..N) : i <= j}
        old == ctx.DomainRelativeMasks
    IN [ctx EXCEPT !.DomainRelativeMasks =
        [ij \in written \cup DOMAIN old |->
            IF ij \notin written THEN old[ij]
            ELSE IF ij[1] = ij[2]
            THEN DiagonalMask(ctx, ij[1])
            ELSE BitAnd(BitNot(DiagonalMask(ctx, ij[2])), DiagonalMask(ctx, ij[1]))]]

\* ------------------------------------------------------------------------
\* The modern decoders (leaf 0Bh / 1Fh)
\* ------------------------------------------------------------------------

\* (CpuidRegisters.Ecx >> 8) & 0xFF
DomainTypeOf(r) == ValueOf(BitAnd(ShiftRight(r.Ecx, 8), BitsOf(255)))

\* A decoder that takes the shift from EAX[5:0].
DomainShiftOf_SixBits(r) == ValueOf(BitAnd(r.Eax, BitsOf(63)))

\* CpuidRegisters.Eax & 0x1F
DomainShiftOf(r) == ValueOf(BitAnd(r.Eax, BitsOf(31)))

\* A decoder that also stops at an Invalid domain type.
MoreSubleafs_StopsAtInvalid(r) == r.Ebx # ZeroWord /\ DomainTypeOf(r) # 0

\* The loop condition of the three decoders: CpuidRegisters.Ebx != 0.
MoreSubleafs(r) == r.Ebx # ZeroWord

\* CpuidTopology_AllTopologyFromCpuid up to its first call: the decoders run
\* on leaf 1Fh when it is supported and enumerates, else on leaf 0Bh, and
\* the legacy example runs last in every case.
AllTopologyFromCpuid_Start ==
    /\ cmd = "1"
    /\ pc = "AllTopologyFromCpuid"
    /\ LET MaxLeaf == Tools_ReadCpuid(0, 0).Eax
           use1F == UnsignedLessEq(BitsOf(31), MaxLeaf)
                    /\ Tools_ReadCpuid(31, 0).Ebx # ZeroWord
           useB == UnsignedLessEq(BitsOf(11), MaxLeaf) /\ ~use1F
                   /\ Tools_ReadCpuid(11, 0).Ebx # ZeroWord
       IN /\ FoundTopologyInfo' = (IF use1F \/ useB THEN 1 ELSE 0)
          /\ Leaf' = (IF use1F THEN 31 ELSE IF useB THEN 11 ELSE 1)
          /\ pc' = (IF use1F \/ useB THEN "ThreeDomainEnter" ELSE "LegacyExample")
    /\ UNCHANGED <<fileVars, gatherVars, cmd, count, Shift, platformVars, CurrentProcessorAffinity,
                   Subleaf, CpuidRegisters, LogicalProcessorShift, PackageShift,
                   ApicidBitLayoutCtx, bFoundUnknownDomain, visited, shiftCalls, groupVars>>

\* ParseCpu_CpuidThreeDomainExample(Leaf): locals and the first query.
ThreeDomain_Enter ==
    /\ pc = "ThreeDomainEnter"
    /\ LogicalProcessorShift' = 0
    /\ PackageShift' = 0
    /\ Subleaf' = 0
    /\ CpuidRegisters' = Tools_ReadCpuid(Leaf, 0)
    /\ visited' = <<>>
    /\ pc' = "ThreeDomainLoop"
    /\ UNCHANGED <<fileVars, gatherVars, cmd, count, Shift, platformVars, CurrentProcessorAffinity,
                   Leaf, ApicidBitLayoutCtx, bFoundUnknownDomain,
                   FoundTopologyInfo, shiftCalls, groupVars>>

\* The LogicalProcessorShift a three-domain decoder keeps that takes the
\* shift of every subleaf but the Invalid ones.
ThreeDomainLpShift_AnyDomain(DomainType, DomainShift, old) ==
    IF DomainType # 0 THEN DomainShift ELSE old

\* The switch of the three-domain loop body: only LogicalProcessorDomain
\* updates LogicalProcessorShift.
ThreeDomainLpShift(DomainType, DomainShift, old) ==
    IF DomainType = 1 THEN DomainShift ELSE old

\* One iteration of the while loop of ParseCpu_CpuidThreeDomainExample.
ThreeDomain_Iterate ==
    /\ pc = "ThreeDomainLoop"
    /\ MoreSubleafs(CpuidRegisters)
    /\ LET DomainType == DomainTypeOf(CpuidRegisters)
           DomainShift == DomainShiftOf(CpuidRegisters)
       IN /\ LogicalProcessorShift' =
                 ThreeDomainLpShift(DomainType, DomainShift, LogicalProcessorShift)
          /\ PackageShift' = DomainShift
    /\ visited' = Append(visited, Subleaf)
    /\ Subleaf' = Subleaf + 1
    /\ CpuidRegisters' = Tools_ReadCpuid(Leaf, Subleaf + 1)
    /\ UNCHANGED <<fileVars, gatherVars, cmd, pc, count, Shift, platformVars, CurrentProcessorAffinity,
                   Leaf, ApicidBitLayoutCtx, bFoundUnknownDomain,
                   FoundTopologyInfo, shiftCalls, groupVars>>

\* The loop ends; Display_ThreeDomainDisplay is about to be called.
ThreeDomain_Exit ==
    /\ pc = "ThreeDomainLoop"
    /\ ~MoreSubleafs(CpuidRegisters)
    /\ pc' = "ThreeDomainDisplay"
    /\ UNCHANGED <<fileVars, gatherVars, cmd, count, Shift, platformVars, CurrentProcessorAffinity,
                   cpuVars, shiftCalls, groupVars>>

\* Display_ThreeDomainDisplay gathers the APIC ids, which leaves the
\* affinity on the last processor; then the many-domain example is called.
ThreeDomain_Return ==
    /\ pc = "ThreeDomainDisplay"
    /\ CurrentProcessorAffinity' = AffinityAfterGatherCall(MAX_PROCESSORS)
    /\ pc' = "ManyDomainEnter"
    /\ UNCHANGED <<fileVars, gatherVars, cmd, count, Shift, platformVars, cpuVars, shiftCalls, groupVars>>

\* ParseCpu_CpuidManyDomainExample(Leaf): locals and the first query.
ManyDomain_Enter ==
    /\ pc = "ManyDomainEnter"
    /\ ApicidBitLayoutCtx' = [ZeroLayoutCtx EXCEPT !.NumberOfApicIdBits = 32]
    /\ Subleaf' = 0
    /\ CpuidRegisters' = Tools_ReadCpuid(Leaf, 0)
    /\ visited' = <<>>
    /\ pc' = "ManyDomainLoop"
    /\ UNCHANGED <<fileVars, gatherVars, cmd, count, Shift, platformVars, CurrentProcessorAffinity,
                   Leaf, LogicalProcessorShift, PackageShift,
                   bFoundUnknownDomain, FoundTopologyInfo, shiftCalls, groupVars>>

\* A collapsing switch that ignores the subleafs of unknown type.
CollapseStep_DropsUnknown(ctx, DomainType, DomainShift) ==
    IF Tools_IsDomainKnownEnumeration(DomainType)
    THEN [ctx EXCEPT !.ShiftValues[ctx.PackageDomainIndex] = DomainShift,
                     !.ShiftValueDomain[ctx.PackageDomainIndex] = DomainType,
                     !.PackageDomainIndex = ctx.PackageDomainIndex + 1]
    ELSE ctx

\* A collapsing switch that appends a level for every subleaf.
CollapseStep_NoCollapse(ctx, DomainType, DomainShift) ==
    [ctx EXCEPT !.ShiftValues[ctx.PackageDomainIndex] = DomainShift,
                !.ShiftValueDomain[ctx.PackageDomainIndex] = DomainType,
                !.PackageDomainIndex = ctx.PackageDomainIndex + 1]

\* The switch of the collapsing loops where every index is inside the
\* 32-entry tables: a known domain appends a level, any other one
\* overwrites the shift of the level appended last.
CollapseStep(ctx, DomainType, DomainShift) ==
    IF Tools_IsDomainKnownEnumeration(DomainType)
    THEN [ctx EXCEPT !.ShiftValues[ctx.PackageDomainIndex] = DomainShift,
                     !.ShiftValueDomain[ctx.PackageDomainIndex] = DomainType,
                     !.PackageDomainIndex = ctx.PackageDomainIndex + 1]
    ELSE [ctx EXCEPT !.ShiftValues[ctx.PackageDomainIndex - 1] = DomainShift]

\* The index the switch writes is outside ShiftValues[MAXIMUM_DOMAINS]:
\* PackageDomainIndex - 1 with no level appended (0xFFFFFFFF), or a 33rd
\* level.
CollapseIndexOutOfBounds(ctx, DomainType) ==
    IF Tools_IsDomainKnownEnumeration(DomainType)
    THEN ctx.PackageDomainIndex >= MAXIMUM_DOMAINS
    ELSE ctx.PackageDomainIndex = 0

\* What a build does with a write outside the tables (undefined
\* behaviour): the program faults, or the word of the structure next to
\* the table takes the write and the program goes on.
OutOfBoundsOutcomes == {"fault", "neighbour"}

\* ShiftValues[k] = DomainShift and ShiftValueDomain[k] = DomainType for
\* MAXIMUM_DOMAINS <= k < 2 * MAXIMUM_DOMAINS, landing on the fields that
\* follow in APICID_BIT_LAYOUT_CTX: ShiftValueDomain[k - 32] and
\* DomainRelativeMasks[0][k - 32].
LevelWriteOutOfBounds(ctx, k, DomainType, DomainShift) ==
    LET m == ctx.DomainRelativeMasks
        at == <<0, k - MAXIMUM_DOMAINS>>
    IN [ctx EXCEPT !.ShiftValueDomain[k - MAXIMUM_DOMAINS] = DomainShift,
                   !.DomainRelativeMasks =
                       [ij \in (DOMAIN m) \cup {at} |->
                           IF ij = at THEN BitsOf(DomainType) ELSE m[ij]]]

\* The switch of the collapsing loops when the index is outside the table.
\* ShiftValues[-1] is NumberOfApicIdBits.
CollapseStepOutOfBounds(ctx, DomainType, DomainShift) ==
    IF Tools_IsDomainKnownEnumeration(DomainType)
    THEN [LevelWriteOutOfBounds(ctx, ctx.PackageDomainIndex, DomainType, DomainShift)
             EXCEPT !.PackageDomainIndex = ctx.PackageDomainIndex + 1]
    ELSE [ctx EXCEPT !.NumberOfApicIdBits = DomainShift]

\* One iteration of the while loop of ParseCpu_CpuidManyDomainExample.
ManyDomain_Iterate ==
    /\ pc = "ManyDomainLoop"
    /\ MoreSubleafs(CpuidRegisters)
    /\ LET DomainType == DomainTypeOf(CpuidRegisters)
           DomainShift == DomainShiftOf(CpuidRegisters)
       IN \E outcome \in IF CollapseIndexOutOfBounds(ApicidBitLayoutCtx, DomainType)
                         THEN OutOfBoundsOutcomes ELSE {"inside"} :
             IF outcome = "fault"
             THEN /\ pc' = "fault"
                  /\ UNCHANGED <<ApicidBitLayoutCtx, visited, Subleaf, CpuidRegisters>>
             ELSE /\ pc' = pc
                  /\ ApicidBitLayoutCtx' =
                       (IF outcome = "inside"
                        THEN CollapseStep(ApicidBitLayoutCtx, DomainType, DomainShift)
                        ELSE CollapseStepOutOfBounds(ApicidBitLayoutCtx, DomainType, DomainShift))
                  /\ visited' = Append(visited, Subleaf)
                  /\ Subleaf' = Subleaf + 1
                  /\ CpuidRegisters' = Tools_ReadCpuid(Leaf, Subleaf + 1)
    /\ UNCHANGED <<fileVars, gatherVars, cmd, count, Shift, platformVars, CurrentProcessorAffinity,
                   Leaf, LogicalProcessorShift, PackageShift,
                   bFoundUnknownDomain, FoundTopologyInfo, shiftCalls, groupVars>>

\* The loop ends: the mask matrix is built and Display_ManyDomainExample is
\* about to be called.
ManyDomain_Exit ==
    /\ pc = "ManyDomainLoop"
    /\ ~MoreSubleafs(CpuidRegisters)
    /\ ApicidBitLayoutCtx' = CreateDomainMaskMatrix(ApicidBitLayoutCtx)
    /\ pc' = "ManyDomainDisplay"
    /\ UNCHANGED <<fileVars, gatherVars, cmd, count, Shift, platformVars, CurrentProcessorAffinity,
                   Leaf, Subleaf, CpuidRegisters, LogicalProcessorShift,
                   PackageShift, bFoundUnknownDomain, FoundTopologyInfo,
                   visited, shiftCalls, groupVars>>

\* Display_ManyDomainExample gathers the APIC ids too; back in
\* CpuidTopology_AllTopologyFromCpuid the legacy example is called next.
ManyDomain_Return ==
    /\ pc = "ManyDomainDisplay"
    /\ CurrentProcessorAffinity' = AffinityAfterGatherCall(MAX_PROCESSORS)
    /\ pc' = "LegacyExample"
    /\ UNCHANGED <<fileVars, gatherVars, cmd, count, Shift, platformVars, cpuVars, shiftCalls, groupVars>>

\* ------------------------------------------------------------------------
\* ParseCpu_ApicIdTopologyLayout and ParseCpu_Internal_TopologyBitsFromLeaf
\* ------------------------------------------------------------------------

\* ParseCpu_ApicIdTopologyLayout up to its first call.
ApicIdTopologyLayout_Start ==
    /\ cmd = "4"
    /\ pc = "ApicIdTopologyLayout"
    /\ LET MaxLeaf == Tools_ReadCpuid(0, 0).Eax
       IN IF UnsignedLessEq(BitsOf(31), MaxLeaf)
          THEN Leaf' = 31 /\ pc' = "TopologyBitsEnter"
          ELSE IF UnsignedLessEq(BitsOf(11), MaxLeaf)
               THEN Leaf' = 11 /\ pc' = "TopologyBitsEnter"
               ELSE Leaf' = 1 /\ pc' = "LegacyTopologyBits"
    /\ UNCHANGED <<fileVars, gatherVars, cmd, count, Shift, platformVars, CurrentProcessorAffinity,
                   Subleaf, CpuidRegisters, LogicalProcessorShift, PackageShift,
                   ApicidBitLayoutCtx, bFoundUnknownDomain, FoundTopologyInfo,
                   visited, shiftCalls, groupVars>>

\* ParseCpu_Internal_TopologyBitsFromLeaf(Leaf): locals and the first query.
TopologyBits_Enter ==
    /\ pc = "TopologyBitsEnter"
    /\ ApicidBitLayoutCtx' = [ZeroLayoutCtx EXCEPT !.NumberOfApicIdBits = 32]
    /\ Subleaf' = 0
    /\ CpuidRegisters' = Tools_ReadCpuid(Leaf, 0)
    /\ bFoundUnknownDomain' = FALSE
    /\ visited' = <<>>
    /\ pc' = "TopologyBitsLoop"
    /\ UNCHANGED <<fileVars, gatherVars, cmd, count, Shift, platformVars, CurrentProcessorAffinity,
                   Leaf, LogicalProcessorShift, PackageShift,
                   FoundTopologyInfo, shiftCalls, groupVars>>

\* The body of the first loop with Subleaf inside the tables: one level per
\* subleaf.
FullLayoutStep(ctx, k, DomainType, DomainShift) ==
    [ctx EXCEPT !.ShiftValues[k] = DomainShift,
                !.ShiftValueDomain[k] = DomainType,
                !.PackageDomainIndex = ctx.PackageDomainIndex + 1]

\* One iteration of the first while loop.
TopologyBits_Iterate ==
    /\ pc = "TopologyBitsLoop"
    /\ MoreSubleafs(CpuidRegisters)
    /\ LET DomainType == DomainTypeOf(CpuidRegisters)
           DomainShift == DomainShiftOf(CpuidRegisters)
       IN /\ \E outcome \in IF Subleaf >= MAXIMUM_DOMAINS
                            THEN OutOfBoundsOutcomes ELSE {"inside"} :
                IF outcome = "fault"
                THEN /\ pc' = "fault"
                     /\ UNCHANGED <<ApicidBitLayoutCtx, visited, Subleaf,
                                    CpuidRegisters, bFoundUnknownDomain>>
                ELSE /\ pc' = pc
                     /\ ApicidBitLayoutCtx' =
                          (IF outcome = "inside"
                           THEN FullLayoutStep(ApicidBitLayoutCtx, Subleaf, DomainType, DomainShift)
                           ELSE [LevelWriteOutOfBounds(ApicidBitLayoutCtx, Subleaf,
                                                       DomainType, DomainShift)
                                   EXCEPT !.PackageDomainIndex =
                                              ApicidBitLayoutCtx.PackageDomainIndex + 1])
                     /\ bFoundUnknownDomain' =
                          (IF Tools_IsDomainKnownEnumeration(DomainType)
                           THEN bFoundUnknownDomain ELSE TRUE)
                     /\ visited' = Append(visited, Subleaf)
                     /\ Subleaf' = Subleaf + 1
                     /\ CpuidRegisters' = Tools_ReadCpuid(Leaf, Subleaf + 1)
    /\ UNCHANGED <<fileVars, gatherVars, cmd, count, Shift, platformVars, CurrentProcessorAffinity,
                   Leaf, LogicalProcessorShift, PackageShift,
                   FoundTopologyInfo, shiftCalls, groupVars>>

\* The first loop ends; Display_ApicIdBitLayout shows the full layout.
TopologyBits_Exit ==
    /\ pc = "TopologyBitsLoop"
    /\ ~MoreSubleafs(CpuidRegisters)
    /\ pc' = "TopologyBitsDisplay"
    /\ UNCHANGED <<fileVars, gatherVars, cmd, count, Shift, platformVars, CurrentProcessorAffinity,
                   cpuVars, shiftCalls, groupVars>>

\* Where ParseCpu_ApicIdTopologyLayout goes after a layout from leaf l.
AfterTopologyBits(l) == IF l = 31 THEN "TopologyBitsEnter" ELSE "LegacyTopologyBits"

\* After the display: with an unknown domain found the second pass starts on
\* the same context (PackageDomainIndex reset, tables kept); otherwise the
\* function returns.
TopologyBits_AfterDisplay ==
    /\ pc = "TopologyBitsDisplay"
    /\ IF bFoundUnknownDomain
       THEN /\ ApicidBitLayoutCtx' = [ApicidBitLayoutCtx EXCEPT !.PackageDomainIndex = 0]
            /\ Subleaf' = 0
            /\ CpuidRegisters' = Tools_ReadCpuid(Leaf, 0)
            /\ bFoundUnknownDomain' = FALSE
            /\ visited' = <<>>
            /\ pc' = "TopologyBitsCollapseLoop"
            /\ Leaf' = Leaf
       ELSE /\ pc' = AfterTopologyBits(Leaf)
            /\ Leaf' = (IF Leaf = 31 THEN 11 ELSE 1)
            /\ UNCHANGED <<ApicidBitLayoutCtx, Subleaf, CpuidRegisters,
                           bFoundUnknownDomain, visited>>
    /\ UNCHANGED <<fileVars, gatherVars, cmd, count, Shift, platformVars, CurrentProcessorAffinity,
                   LogicalProcessorShift, PackageShift, FoundTopologyInfo,
                   shiftCalls, groupVars>>

\* One iteration of the second (collapsing) while loop.
TopologyBits_CollapseIterate ==
    /\ pc = "TopologyBitsCollapseLoop"
    /\ MoreSubleafs(CpuidRegisters)
    /\ LET DomainType == DomainTypeOf(CpuidRegisters)
           DomainShift == DomainShiftOf(CpuidRegisters)
       IN \E outcome \in IF CollapseIndexOutOfBounds(ApicidBitLayoutCtx, DomainType)
                         THEN OutOfBoundsOutcomes ELSE {"inside"} :
             IF outcome = "fault"
             THEN /\ pc' = "fault"
                  /\ UNCHANGED <<ApicidBitLayoutCtx, visited, Subleaf, CpuidRegisters>>
             ELSE /\ pc' = pc
                  /\ ApicidBitLayoutCtx' =
                       (IF outcome = "inside"
                        THEN CollapseStep(ApicidBitLayoutCtx, DomainType, DomainShift)
                        ELSE CollapseStepOutOfBounds(ApicidBitLayoutCtx, DomainType, DomainShift))
                  /\ visited' = Append(visited, Subleaf)
                  /\ Subleaf' = Subleaf + 1
                  /\ CpuidRegisters' = Tools_ReadCpuid(Leaf, Subleaf + 1)
    /\ UNCHANGED <<fileVars, gatherVars, cmd, count, Shift, platformVars, CurrentProcessorAffinity,
                   Leaf, LogicalProcessorShift, PackageShift,
                   bFoundUnknownDomain, FoundTopologyInfo, shiftCalls, groupVars>>

\* The second loop ends; Display_ApicIdBitLayout shows the collapsed layout.
TopologyBits_CollapseExit ==
    /\ pc = "TopologyBitsCollapseLoop"
    /\ ~MoreSubleafs(CpuidRegisters)
    /\ pc' = "TopologyBitsCollapsedDisplay"
    /\ UNCHANGED <<fileVars, gatherVars, cmd, count, Shift, platformVars, CurrentProcessorAffinity,
                   cpuVars, shiftCalls, groupVars>>

\* ParseCpu_Internal_TopologyBitsFromLeaf returns after the second display.
TopologyBits_Return ==
    /\ pc = "TopologyBitsCollapsedDisplay"
    /\ pc' = AfterTopologyBits(Leaf)
    /\ Leaf' = (IF Leaf = 31 THEN 11 ELSE 1)
    /\ UNCHANGED <<fileVars, gatherVars, cmd, count, Shift, platformVars, CurrentProcessorAffinity,
                   Subleaf, CpuidRegisters, LogicalProcessorShift, PackageShift,
                   ApicidBitLayoutCtx, bFoundUnknownDomain, FoundTopologyInfo,
                   visited, shiftCalls, groupVars>>

\* ------------------------------------------------------------------------
\* The legacy decoders (CPUID.1 and CPUID.4)
\* ------------------------------------------------------------------------

\* CpuidRegisters.Edx & (1 << 28): CPUID.1.EDX[28].HTT
HttSet(r) == BitAnd(r.Edx, ShiftLeft(BitsOf(1), 28)) # ZeroWord

\* (CpuidRegisters.Ebx >> 16) & 0xFF: CPUID.1.EBX[23:16]
MaximumAddressibleIdsPhysicalPackageOf(r) ==
    ValueOf(BitAnd(ShiftRight(r.Ebx, 16), BitsOf(255)))

\* The core count read from EAX[31:27].
MaximumAddressibleIdsCoresOf_WrongField(r) == ValueOf(ShiftRight(r.Eax, 27)) + 1

\* (CpuidRegisters.Eax >> 26) + 1: CPUID.4.0.EAX[31:26] + 1
MaximumAddressibleIdsCoresOf(r) == ValueOf(ShiftRight(r.Eax, 26)) + 1

\* The body shared by ParseCpu_CpuidLegacyExample and
\* ParseCpu_Internal_LegacyTopologyBits: the two shifts, which branch was
\* taken and the counts handed to Tools_CreateTopologyShift.
LegacyShifts ==
    LET r1 == Tools_ReadCpuid(1, 0)
        MaximumAddressibleIdsPhysicalPackage ==
            IF HttSet(r1) THEN MaximumAddressibleIdsPhysicalPackageOf(r1) ELSE 1
        HasLeaf4 == UnsignedLessEq(BitsOf(4), Tools_ReadCpuid(0, 0).Eax)
        MaximumAddressibleIdsCores == MaximumAddressibleIdsCoresOf(Tools_ReadCpuid(4, 0))
        LogicalProcessorsPerCore ==
            MaximumAddressibleIdsPhysicalPackage \div MaximumAddressibleIdsCores
        Package == Tools_CreateTopologyShift(BitsOf(MaximumAddressibleIdsPhysicalPackage))
    IN IF HttSet(r1) /\ HasLeaf4
       THEN [branch |-> "leaf4",
             LogicalProcessorShift |-> Tools_CreateTopologyShift(BitsOf(LogicalProcessorsPerCore)),
             PackageShift |-> Package,
             calls |-> {LogicalProcessorsPerCore, MaximumAddressibleIdsPhysicalPackage}]
       ELSE [branch |-> IF HttSet(r1) THEN "htt" ELSE "none",
             LogicalProcessorShift |-> Package,
             PackageShift |-> Package,
             calls |-> {MaximumAddressibleIdsPhysicalPackage}]

\* ParseCpu_CpuidLegacyExample up to its call of Display_ThreeDomainDisplay.
LegacyExample ==
    /\ pc = "LegacyExample"
    /\ LET res == LegacyShifts
       IN /\ PackageShift' = res.PackageShift
          /\ LogicalProcessorShift' = res.LogicalProcessorShift
          /\ shiftCalls' = shiftCalls \cup res.calls
    /\ Leaf' = 1
    /\ pc' = "LegacyDisplay"
    /\ UNCHANGED <<fileVars, gatherVars, cmd, count, Shift, platformVars, CurrentProcessorAffinity,
                   Subleaf, CpuidRegisters, ApicidBitLayoutCtx,
                   bFoundUnknownDomain, FoundTopologyInfo, visited, groupVars>>

\* Display_ThreeDomainDisplay(1, ...) gathers the APIC ids and the command
\* is complete.
LegacyExample_Return ==
    /\ pc = "LegacyDisplay"
    /\ CurrentProcessorAffinity' = AffinityAfterGatherCall(MAX_PROCESSORS)
    /\ pc' = "done"
    /\ UNCHANGED <<fileVars, gatherVars, cmd, count, Shift, platformVars, cpuVars, shiftCalls, groupVars>>

\* ParseCpu_Internal_LegacyTopologyBits up to Display_ApicIdBitLayout: the
\* layout is LogicalProcessor, Core when leaf 4 is used and a single level
\* otherwise.  LogicalProcessorShift is assigned on the leaf 4 branch only.
LegacyTopologyBits ==
    /\ pc = "LegacyTopologyBits"
    /\ LET res == LegacyShifts
           base == [ZeroLayoutCtx EXCEPT !.ShiftValueDomain[0] = 1,
                                         !.ShiftValueDomain[1] = 2,
                                         !.PackageDomainIndex = 2,
                                         !.NumberOfApicIdBits = 8]
       IN /\ ApicidBitLayoutCtx' =
                IF res.branch = "leaf4"
                THEN [base EXCEPT !.ShiftValues[0] = res.LogicalProcessorShift,
                                  !.ShiftValues[1] = res.PackageShift]
                ELSE [base EXCEPT !.ShiftValues[0] = res.PackageShift,
                                  !.PackageDomainIndex = 1]
          /\ PackageShift' = res.PackageShift
          /\ LogicalProcessorShift' =
                (IF res.branch = "leaf4" THEN res.LogicalProcessorShift
                 ELSE LogicalProcessorShift)
          /\ shiftCalls' = shiftCalls \cup res.calls
    /\ pc' = "LegacyBitsDisplay"
    /\ UNCHANGED <<fileVars, gatherVars, cmd, count, Shift, platformVars, CurrentProcessorAffinity,
                   Leaf, Subleaf, CpuidRegisters, bFoundUnknownDomain,
                   FoundTopologyInfo, visited, groupVars>>

\* Display_ApicIdBitLayout returns and the command is complete.
LegacyTopologyBits_Return ==
    /\ pc = "LegacyBitsDisplay"
    /\ pc' = "done"
    /\ UNCHANGED <<fileVars, gatherVars, cmd, count, Shift, platformVars, CurrentProcessorAffinity,
                   cpuVars, shiftCalls, groupVars>>

\* ------------------------------------------------------------------------
\* The topology commands: '1' and '4'
\* ------------------------------------------------------------------------

\* A leaf 0Bh / 1Fh subleaf: EAX[4:0] the shift (bit 5 is outside the
\* field), EBX the processor count, ECX[15:8] the domain type and ECX[7:0]
\* the subleaf number.
TopoSubleaf(DomainType, DomainShift, ebx, sub) ==
    [Eax |-> BitsOf(DomainShift + 32), Ebx |-> BitsOf(ebx),
     Ecx |-> BitsOf(DomainType * 256 + sub), Edx |-> ZeroWord]

\* The subleaf kinds tried: <<domain type, shift, EBX>>.  The last one has
\* EBX = 0.
TopoKinds ==
    {<<1, 1, 2>>, <<1, 2, 4>>, <<2, 3, 8>>, <<99, 2, 4>>, <<200, 4, 16>>,
     <<0, 1, 1>>, <<0, 0, 0>>}

RECURSIVE KindSequences(_)
KindSequences(n) ==
    IF n = 0 THEN {<<>>}
    ELSE LET shorter == KindSequences(n - 1)
         IN shorter \cup {Append(q, k) : q \in {x \in shorter : Len(x) = n - 1}, k \in TopoKinds}

\* The recorded tables of a topology leaf.
TopoTables ==
    {[i \in 1..Len(q) |-> TopoSubleaf(q[i][1], q[i][2], q[i][3], i - 1)] :
        q \in KindSequences(MaxTopoSubleafs)}

\* A fixed well-formed table: LogicalProcessor then Core.
PlainTopoTable == <<TopoSubleaf(1, 1, 2, 0), TopoSubleaf(2, 2, 4, 1)>>

\* CPUID.0: EAX the maximum leaf.
Leaf0(MaxLeaf) == [ZeroRegisters EXCEPT !.Eax = BitsOf(MaxLeaf)]

\* CPUID.1: EDX[28] HTT, EBX[23:16] the addressable ids; the other bits
\* set here lie outside both fields.
Leaf1(htt, ids) ==
    [ZeroRegisters EXCEPT !.Ebx = BitsOf(ids * 65536 + 2048 + 5),
                          !.Edx = IF htt THEN {0, 23, 28} ELSE {0, 23}]

\* CPUID.4.0: EAX[31:26] the core field, EAX[4:0] the cache type.
Leaf4Subleaf0(coreField) ==
    [ZeroRegisters EXCEPT !.Eax = BitOr(ShiftLeft(BitsOf(coreField), 26), BitsOf(289)),
                          !.Ebx = BitsOf(63)]

\* The leaf 0Bh / 1Fh table of a uniform system with 2^t threads per core
\* and 2^c cores per package: LogicalProcessor then Core.
UniformTopoTable(t, c) ==
    <<TopoSubleaf(1, t, 2^t, 0), TopoSubleaf(2, t + c, 2^(t + c), 1)>>

\* The same uniform system seen through every decoder: CPUID.1 EBX[23:16]
\* = 2^(t+c), CPUID.4.0 EAX[31:26] = 2^c - 1, and the topology leaf.
UniformPlatforms ==
    {<<native, MaxLeaf, UniformTopoTable(t, c), UniformTopoTable(t, c), TRUE,
       2^(t + c), 2^c - 1, 2>> :
        native \in BOOLEAN, MaxLeaf \in {11, 31},
        t \in 0..MaxUniformLog, c \in 0..MaxUniformLog}

\* Platforms whose CPUID.0 EAX lies around the two topology leaves, with
\* both leaves answering, only leaf 0Bh answering, or neither.
MaxLeafPlatforms ==
    {<<native, MaxLeaf, tt[1], tt[2], TRUE, 4, 1, 2>> :
        native \in BOOLEAN,
        MaxLeaf \in {0, 10, 12, 30, 31, 32, 2^30},
        tt \in {<<PlainTopoTable, PlainTopoTable>>, <<<<>>, PlainTopoTable>>,
                <<<<>>, <<>>>>}}

\* The platforms of the topology commands, as <<native, MaxLeaf, leaf 1Fh
\* table, leaf 0Bh table, HTT, ids, core field, processors>>.
CpuPlatforms ==
    ({FALSE} \X {31} \X TopoTables \X {PlainTopoTable} \X {TRUE} \X {4} \X {1} \X {2})
    \cup ({TRUE} \X {11} \X {<<>>} \X TopoTables \X {TRUE} \X {4} \X {1} \X {2})
    \cup (BOOLEAN \X {1, 4} \X {<<>>} \X {<<>>} \X BOOLEAN
            \X ((0..MaxLegacyIds) \cup {255})
            \X ((0..MaxLegacyCoreField) \cup {63}) \X {1, 2})
    \cup UniformPlatforms
    \cup MaxLeafPlatforms

InitCpu ==
    /\ cmd \in {"1", "4"}
    /\ pc = (IF cmd = "1" THEN "AllTopologyFromCpuid" ELSE "ApicIdTopologyLayout")
    /\ count = ZeroWord
    /\ Shift = 0
    /\ \E pl \in CpuPlatforms :
          /\ UseNativeCpuid = pl[1]
          /\ SimulatedCpuid = [l \in {0, 1, 11, 31} |->
                                  IF l = 0 THEN <<Leaf0(pl[2])>>
                                  ELSE IF l = 1 THEN <<Leaf1(pl[5], pl[6])>>
                                  ELSE IF l = 11 THEN pl[4]
                                  ELSE pl[3]]
          /\ SimulatedCpuidLeaf4 = [p \in 1..pl[8] |-> <<Leaf4Subleaf0(pl[7])>>]
          /\ SimulatedCpuidLeaf18 = [p \in 1..pl[8] |-> <<>>]
          /\ SimulatedApicIds = [p \in 1..pl[8] |-> BitsOf(p - 1)]
          /\ NumberOfSimulatedProcessors = pl[8]
    /\ CurrentProcessorAffinity = 0
    /\ IdleCpuLocals
    /\ IdleGroupLocals
    /\ IdleGatherLocals
    /\ IdleFileLocals

NextCpu ==
    \/ AllTopologyFromCpuid_Start
    \/ ThreeDomain_Enter
    \/ ThreeDomain_Iterate
    \/ ThreeDomain_Exit
    \/ ThreeDomain_Return
    \/ ManyDomain_Enter
    \/ ManyDomain_Iterate
    \/ ManyDomain_Exit
    \/ ManyDomain_Return
    \/ LegacyExample
    \/ LegacyExample_Return
    \/ ApicIdTopologyLayout_Start
    \/ TopologyBits_Enter
    \/ TopologyBits_Iterate
    \/ TopologyBits_Exit
    \/ TopologyBits_AfterDisplay
    \/ TopologyBits_CollapseIterate
    \/ TopologyBits_CollapseExit
    \/ TopologyBits_Return
    \/ LegacyTopologyBits
    \/ LegacyTopologyBits_Return

SpecCpu == InitCpu /\ [][NextCpu]_vars

\* ------------------------------------------------------------------------
\* The cache pass: ParseCache_CpuidCacheExample (command '6')
\* ------------------------------------------------------------------------

\* A pass that tests EAX bit 4 alone for the end of the caches.
CacheTypeOf_Bit4Only(r) == ValueOf(BitAnd(r.Eax, BitsOf(16)))

\* CpuidRegisters.Eax & 0x1F
CacheTypeOf(r) == ValueOf(BitAnd(r.Eax, BitsOf(31)))

\* (((CpuidRegisters.Eax) >> 14) & 0xFFF) + 1, a word
MaxAddressibleIdSharingCacheOf(r) ==
    Increment(BitAnd(ShiftRight(r.Eax, 14), BitsOf(4095)))

\* ~((1 << Shift) - 1)
SharingMask(shift) == BitNot(Decrement(ShiftLeft(BitsOf(1), shift)))

\* A search that compares the identifiers only.
FindMatchingCacheEntry_IdOnly(info, n, CacheId, regs) ==
    LET hits == {x \in 0..(n - 1) : info[x + 1].CacheId = CacheId}
    IN IF hits = {} THEN INVALID_CACHE_INDEX
       ELSE CHOOSE x \in hits : \A y \in hits : x <= y

\* ParseCache_Internal_FindMatchingCacheEntry: the first of the n entries
\* with this CacheId and these registers.
ParseCache_Internal_FindMatchingCacheEntry(info, n, CacheId, regs) ==
    LET hits == {x \in 0..(n - 1) : /\ info[x + 1].CacheId = CacheId
                                    /\ info[x + 1].CachedCpuidRegisters = regs}
    IN IF hits = {} THEN INVALID_CACHE_INDEX
       ELSE CHOOSE x \in hits : \A y \in hits : x <= y

\* The entry ParseCache_Internal_AddCacheEntry fills in.
NewCacheEntry(CacheId, CacheMask, regs) ==
    [CacheType |-> CacheTypeOf(regs),
     CacheLevel |-> ValueOf(BitAnd(ShiftRight(regs.Eax, 5), BitsOf(7))),
     CacheId |-> CacheId,
     CacheMask |-> CacheMask,
     NumberOfLPsSharingThisCache |-> 0,
     ListOfApicIDsSharingThisCache |-> <<>>,
     CachedCpuidRegisters |-> regs]

\* A pass that puts the new member in front of the list.
AppendCacheMember_Prepends(info, CacheIndex, ApicId) ==
    [info EXCEPT ![CacheIndex + 1].ListOfApicIDsSharingThisCache = <<ApicId>> \o @,
                 ![CacheIndex + 1].NumberOfLPsSharingThisCache = @ + 1]

\* pCacheInfo[CacheIndex].ListOfApicIDsSharingThisCache[NumberOfLPs] = ApicId;
\* pCacheInfo[CacheIndex].NumberOfLPsSharingThisCache++
AppendCacheMember(info, CacheIndex, ApicId) ==
    [info EXCEPT ![CacheIndex + 1].ListOfApicIDsSharingThisCache = Append(@, ApicId),
                 ![CacheIndex + 1].NumberOfLPsSharingThisCache = @ + 1]

\* The history kept beside the groups.
RecordAppended(hist, GroupIndex, regs) ==
    IF GroupIndex < Len(hist) THEN [hist EXCEPT ![GroupIndex + 1] = Append(@, regs)]
    ELSE Append(hist, <<regs>>)

\* ParseCache_CpuidCacheExample up to its processor loop.  Below leaf 4, or
\* when calloc returns NULL, nothing is done.
Cache_Start ==
    /\ cmd = "6"
    /\ pc = "CacheExample"
    /\ IF UnsignedLessEq(BitsOf(4), Tools_ReadCpuid(0, 0).Eax)
       THEN \E allocated \in BOOLEAN :
               /\ NumberOfProcessors' = GatherCount(MAX_PROCESSORS)
               /\ ApicIdList' = Tools_GatherPlatformApicIds(MAX_PROCESSORS)
               /\ CurrentProcessorAffinity' = AffinityAfterGatherCall(MAX_PROCESSORS)
               /\ NumberOfCaches' = 0
               /\ pCacheInfo' = <<>>
               /\ appended' = <<>>
               /\ ProcessorIndex' = 0
               /\ pc' = (IF allocated THEN "CacheProcessorLoop" ELSE "done")
       ELSE /\ pc' = "done"
            /\ UNCHANGED <<NumberOfProcessors, ApicIdList, CurrentProcessorAffinity,
                           NumberOfCaches, pCacheInfo, appended, ProcessorIndex>>
    /\ UNCHANGED <<fileVars, gatherVars, cmd, count, Shift, platformVars, cpuVars, shiftCalls,
                   SubleafIndex, MaxSubleaf, pTlbInfo, NumberOfTlbs>>

\* The head of the processor loop: Tools_SetAffinity, subleaf 0 is read.
Cache_NextProcessor ==
    /\ pc = "CacheProcessorLoop"
    /\ ProcessorIndex < NumberOfProcessors
    /\ LET at == AffinityAfterSet(CurrentProcessorAffinity, ProcessorIndex)
       IN /\ CurrentProcessorAffinity' = at
          /\ CpuidRegisters' = ReadCpuidOn(at, 4, ZeroWord)
    /\ SubleafIndex' = ZeroWord
    /\ pc' = "CacheSubleafLoop"
    /\ UNCHANGED <<fileVars, gatherVars, cmd, count, Shift, platformVars, Leaf, Subleaf,
                   LogicalProcessorShift, PackageShift, ApicidBitLayoutCtx,
                   bFoundUnknownDomain, FoundTopologyInfo, visited, shiftCalls,
                   ProcessorIndex, MaxSubleaf, NumberOfProcessors, ApicIdList,
                   pCacheInfo, NumberOfCaches, pTlbInfo, NumberOfTlbs, appended>>

\* One iteration of the while loop over the cache subleafs.  A new entry
\* is written at pCacheInfo[NumberOfCaches] after the counter is
\* incremented, with no test against the NumberOfProcessors *
\* MAX_CACHE_PER_LP entries allocated: past them the write is outside the
\* allocation.
Cache_Subleaf ==
    /\ pc = "CacheSubleafLoop"
    /\ CacheTypeOf(CpuidRegisters) # 0
    /\ \E MaxAddressibleIdSharingCache \in {MaxAddressibleIdSharingCacheOf(CpuidRegisters)} :
       \E CacheShift \in {Tools_CreateTopologyShift(MaxAddressibleIdSharingCache)} :
       \E CacheMask \in {SharingMask(CacheShift)} :
       \E CacheId \in {BitAnd(ApicIdList[ProcessorIndex + 1], CacheMask)} :
       \E found \in {ParseCache_Internal_FindMatchingCacheEntry(
                         pCacheInfo, NumberOfCaches, CacheId, CpuidRegisters)} :
       \E next \in {Increment(SubleafIndex)} :
          LET CacheIndex == IF found = INVALID_CACHE_INDEX THEN NumberOfCaches ELSE found
              added == IF found = INVALID_CACHE_INDEX
                       THEN Append(pCacheInfo, NewCacheEntry(CacheId, CacheMask, CpuidRegisters))
                       ELSE pCacheInfo
          IN /\ shiftCalls' = shiftCalls \cup {ValueOf(MaxAddressibleIdSharingCache)}
             /\ NumberOfCaches' = (IF found = INVALID_CACHE_INDEX
                                   THEN NumberOfCaches + 1 ELSE NumberOfCaches)
             /\ \E outcome \in IF /\ found = INVALID_CACHE_INDEX
                                  /\ NumberOfCaches >= NumberOfProcessors * MAX_CACHE_PER_LP
                               THEN OutOfBoundsOutcomes ELSE {"inside"} :
                   IF outcome = "fault"
                   THEN /\ pc' = "fault"
                        /\ UNCHANGED <<pCacheInfo, appended, SubleafIndex, CpuidRegisters>>
                   ELSE /\ pc' = pc
                        /\ pCacheInfo' = AppendCacheMember(added, CacheIndex,
                                                           ApicIdList[ProcessorIndex + 1])
                        /\ appended' = RecordAppended(appended, CacheIndex, CpuidRegisters)
                        /\ SubleafIndex' = next
                        /\ CpuidRegisters' = ReadCpuidOn(CurrentProcessorAffinity, 4, next)
    /\ UNCHANGED <<fileVars, gatherVars, cmd, count, Shift, platformVars, CurrentProcessorAffinity,
                   Leaf, Subleaf, LogicalProcessorShift, PackageShift,
                   ApicidBitLayoutCtx, bFoundUnknownDomain, FoundTopologyInfo,
                   visited, ProcessorIndex, MaxSubleaf, NumberOfProcessors,
                   ApicIdList, pTlbInfo, NumberOfTlbs>>

\* CacheType_NoMoreCaches ends the while loop: the next processor.
Cache_EndProcessor ==
    /\ pc = "CacheSubleafLoop"
    /\ CacheTypeOf(CpuidRegisters) = 0
    /\ ProcessorIndex' = ProcessorIndex + 1
    /\ pc' = "CacheProcessorLoop"
    /\ UNCHANGED <<fileVars, gatherVars, cmd, count, Shift, platformVars, CurrentProcessorAffinity,
                   cpuVars, shiftCalls, SubleafIndex, MaxSubleaf,
                   NumberOfProcessors, ApicIdList, pCacheInfo, NumberOfCaches,
                   pTlbInfo, NumberOfTlbs, appended>>

\* The processor loop ends: Display_DisplayProcessorCaches.
Cache_Display ==
    /\ pc = "CacheProcessorLoop"
    /\ ~(ProcessorIndex < NumberOfProcessors)
    /\ pc' = "CacheDisplay"
    /\ UNCHANGED <<fileVars, gatherVars, cmd, count, Shift, platformVars, CurrentProcessorAffinity,
                   cpuVars, shiftCalls, groupVars>>

\* free(pCacheInfo) and the command is complete.
Cache_Return ==
    /\ pc = "CacheDisplay"
    /\ pc' = "done"
    /\ UNCHANGED <<fileVars, gatherVars, cmd, count, Shift, platformVars, CurrentProcessorAffinity,
                   cpuVars, shiftCalls, groupVars>>

\* A leaf 4 subleaf: EAX[4:0] the cache type, EAX[7:5] the level,
\* EAX[25:14] the sharing field, EAX[31:26] the core field; EBX and ECX the
\* geometry.
CacheSubleaf(CacheType, CacheLevel, sharing, ebx) ==
    [Eax |-> BitOr(BitsOf(CacheType + 32 * CacheLevel + 16384 * sharing), {26}),
     Ebx |-> BitsOf(ebx), Ecx |-> BitsOf(63), Edx |-> ZeroWord]

\* The subleaf kinds tried: <<type, level, sharing field, EBX>>.  The third
\* and the fourth differ in EBX only; the last one is the terminator.
CacheKinds ==
    {<<1, 1, 0, 7>>, <<2, 1, 1, 7>>, <<3, 2, 1, 15>>, <<3, 2, 1, 31>>,
     <<31, 3, 3, 15>>, <<3, 3, 4095, 15>>, <<0, 0, 0, 0>>}

RECURSIVE CacheKindSequences(_)
CacheKindSequences(n) ==
    IF n = 0 THEN {<<>>}
    ELSE LET shorter == CacheKindSequences(n - 1)
         IN shorter \cup {Append(q, k) : q \in {x \in shorter : Len(x) = n - 1},
                                         k \in CacheKinds}

CacheTables ==
    {[i \in 1..Len(q) |-> CacheSubleaf(q[i][1], q[i][2], q[i][3], q[i][4])] :
        q \in CacheKindSequences(MaxCacheSubleafs)}

\* A fixed table: a private L1 and an L2 shared by two identifiers.
PlainCacheTable == <<CacheSubleaf(1, 1, 0, 7), CacheSubleaf(3, 2, 1, 15)>>

\* n caches no two of which have the same registers.
DistinctCaches(n) == [i \in 1..n |-> CacheSubleaf(3, 2, 0, i)]

\* The platforms of the cache pass, as <<native, MaxLeaf, leaf 4 tables,
\* APIC ids>>.
CachePlatforms ==
    {<<FALSE, 31, <<t, u>>, <<0, 1>>>> :
        t \in CacheTables, u \in {PlainCacheTable, <<>>}}
    \cup {<<FALSE, 31, <<t, t>>, <<0, 1>>>> : t \in CacheTables}
    \cup {<<TRUE, 4, <<t, t, t>>, <<0, 1, 2>>>> : t \in {PlainCacheTable}}
    \cup {<<native, 4, <<DistinctCaches(n)>>, <<0>>>> :
            native \in BOOLEAN, n \in 0..MaxDistinctCaches}
    \cup {<<FALSE, 3, <<PlainCacheTable>>, <<0>>>>, <<FALSE, 4, <<>>, <<>>>>}

\* The symmetric leaves of a platform whose topology leaves are well formed.
PlainLeaves(MaxLeaf) ==
    [l \in {0, 1, 11, 31} |->
        IF l = 0 THEN <<Leaf0(MaxLeaf)>>
        ELSE IF l = 1 THEN <<Leaf1(TRUE, 4)>>
        ELSE PlainTopoTable]

InitCache ==
    /\ cmd = "6"
    /\ pc = "CacheExample"
    /\ count = ZeroWord
    /\ Shift = 0
    /\ \E pl \in CachePlatforms :
          /\ UseNativeCpuid = pl[1]
          /\ SimulatedCpuid = PlainLeaves(pl[2])
          /\ SimulatedCpuidLeaf4 = pl[3]
          /\ SimulatedCpuidLeaf18 = [p \in 1..Len(pl[4]) |-> <<>>]
          /\ SimulatedApicIds = [p \in 1..Len(pl[4]) |-> BitsOf(pl[4][p])]
          /\ NumberOfSimulatedProcessors = Len(pl[4])
    /\ CurrentProcessorAffinity = 0
    /\ IdleCpuLocals
    /\ IdleGroupLocals
    /\ IdleGatherLocals
    /\ IdleFileLocals

NextCache ==
    \/ Cache_Start
    \/ Cache_NextProcessor
    \/ Cache_Subleaf
    \/ Cache_EndProcessor
    \/ Cache_Display
    \/ Cache_Return

\* ------------------------------------------------------------------------
\* The TLB pass: ParseTlb_CpuidTlbExample (command '5')
\* ------------------------------------------------------------------------

\* CpuidRegisters.Edx & 0x1F
TlbTypeOf(r) == ValueOf(BitAnd(r.Edx, BitsOf(31)))

\* (((CpuidRegisters.Edx) >> 14) & 0xFFF) + 1, a word
MaxAddressibleIdSharingTlbOf(r) ==
    Increment(BitAnd(ShiftRight(r.Edx, 14), BitsOf(4095)))

\* A search that finds nothing.
FindMatchingTlbEntry_Never(info, n, TlbId, regs) == INVALID_TLB_INDEX

\* ParseTlb_Internal_FindMatchingTlbEntry: the first of the n entries with
\* this TlbId and these registers.
ParseTlb_Internal_FindMatchingTlbEntry(info, n, TlbId, regs) ==
    LET hits == {x \in 0..(n - 1) : /\ info[x + 1].TlbId = TlbId
                                    /\ info[x + 1].CachedCpuidRegisters = regs}
    IN IF hits = {} THEN INVALID_TLB_INDEX
       ELSE CHOOSE x \in hits : \A y \in hits : x <= y

\* The entry ParseTlb_Internal_AddTlbEntry fills in.
NewTlbEntry(TlbId, TlbMask, regs) ==
    [TlbType |-> TlbTypeOf(regs),
     TlbLevel |-> ValueOf(BitAnd(ShiftRight(regs.Edx, 5), BitsOf(7))),
     TlbId |-> TlbId,
     TlbMask |-> TlbMask,
     NumberOfLPsSharingThisTlb |-> 0,
     ListOfApicIDsSharingThisTlb |-> <<>>,
     CachedCpuidRegisters |-> regs]

\* pTlbInfo[TlbIndex].ListOfApicIDsSharingThisTlb[NumberOfLPs] = ApicId;
\* pTlbInfo[TlbIndex].NumberOfLPsSharingThisTlb++
AppendTlbMember(info, TlbIndex, ApicId) ==
    [info EXCEPT ![TlbIndex + 1].ListOfApicIDsSharingThisTlb = Append(@, ApicId),
                 ![TlbIndex + 1].NumberOfLPsSharingThisTlb = @ + 1]

\* ParseTlb_CpuidTlbExample up to its processor loop.  Below leaf 18h, or
\* when calloc returns NULL, nothing is done.
Tlb_Start ==
    /\ cmd = "5"
    /\ pc = "TlbExample"
    /\ IF UnsignedLessEq(BitsOf(24), Tools_ReadCpuid(0, 0).Eax)
       THEN \E allocated \in BOOLEAN :
               /\ NumberOfProcessors' = GatherCount(MAX_PROCESSORS)
               /\ ApicIdList' = Tools_GatherPlatformApicIds(MAX_PROCESSORS)
               /\ CurrentProcessorAffinity' = AffinityAfterGatherCall(MAX_PROCESSORS)
               /\ NumberOfTlbs' = 0
               /\ pTlbInfo' = <<>>
               /\ appended' = <<>>
               /\ ProcessorIndex' = 0
               /\ pc' = (IF allocated THEN "TlbProcessorLoop" ELSE "done")
       ELSE /\ pc' = "done"
            /\ UNCHANGED <<NumberOfProcessors, ApicIdList, CurrentProcessorAffinity,
                           NumberOfTlbs, pTlbInfo, appended, ProcessorIndex>>
    /\ UNCHANGED <<fileVars, gatherVars, cmd, count, Shift, platformVars, cpuVars, shiftCalls,
                   SubleafIndex, MaxSubleaf, pCacheInfo, NumberOfCaches>>

\* The head of the processor loop: Tools_SetAffinity, MaxSubleaf = 0 and
\* SubleafIndex = 0.
Tlb_NextProcessor ==
    /\ pc = "TlbProcessorLoop"
    /\ ProcessorIndex < NumberOfProcessors
    /\ CurrentProcessorAffinity' = AffinityAfterSet(CurrentProcessorAffinity, ProcessorIndex)
    /\ MaxSubleaf' = ZeroWord
    /\ SubleafIndex' = ZeroWord
    /\ pc' = "TlbSubleafLoop"
    /\ UNCHANGED <<fileVars, gatherVars, cmd, count, Shift, platformVars, cpuVars, shiftCalls,
                   ProcessorIndex, NumberOfProcessors, ApicIdList, pCacheInfo,
                   NumberOfCaches, pTlbInfo, NumberOfTlbs, appended>>

\* Every query of leaf 18h on processor aff from subleaf sub on answers with
\* zero registers: sub is past the recorded table, or past what the
\* simulation serves.
PastTlbTable(aff, sub) ==
    IF ~(sub \subseteq 0..7) THEN TRUE
    ELSE IF ValueOf(sub) >= Len(ProcessorTable(SimulatedCpuidLeaf18, aff)) THEN TRUE
    ELSE ~UseNativeCpuid /\ ValueOf(sub) >= MAX_SIMULATED_SUBLEAFS

\* Registers left as read.
ClearEax_KeepsEax(r) == r

\* CpuidRegisters.x.Register.Eax = 0
ClearEax(r) == [r EXCEPT !.Eax = ZeroWord]

\* A loop that leaves at the first subleaf of invalid type.
SubleafIndexAfter_StopsAtInvalid(aff, sub, max) ==
    IF ReadCpuidOn(aff, 24, sub).Edx \cap (0..4) = {}
    THEN Increment(max)
    ELSE Increment(sub)

\* SubleafIndex after the body ran for subleaf sub.  The iterations for the
\* subleafs past the table read zero registers (an invalid TLB type) and
\* change nothing but SubleafIndex, so they are taken in the same step:
\* SubleafIndex comes to MaxSubleaf + 1 in 32-bit arithmetic.
SubleafIndexAfter(aff, sub, max) ==
    IF /\ PastTlbTable(aff, Increment(sub))
       /\ Increment(sub) # ZeroWord
       /\ UnsignedLessEq(Increment(sub), max)
    THEN Increment(max)
    ELSE Increment(sub)

\* One iteration of the for loop over the TLB subleafs (SubleafIndex <=
\* MaxSubleaf).  Subleaf 0 supplies MaxSubleaf; EAX is zeroed before the
\* registers are used; an invalid TLB type is skipped.
Tlb_Subleaf ==
    /\ pc = "TlbSubleafLoop"
    /\ UnsignedLessEq(SubleafIndex, MaxSubleaf)
    /\ \E read \in {ReadCpuidOn(CurrentProcessorAffinity, 24, SubleafIndex)} :
       \E max \in {IF SubleafIndex = ZeroWord THEN read.Eax ELSE MaxSubleaf} :
       \E regs \in {ClearEax(read)} :
       \E next \in {SubleafIndexAfter(CurrentProcessorAffinity, SubleafIndex, max)} :
          /\ MaxSubleaf' = max
          /\ CpuidRegisters' = regs
          /\ IF TlbTypeOf(regs) = 0
             THEN /\ SubleafIndex' = next
                  /\ pc' = pc
                  /\ UNCHANGED <<shiftCalls, NumberOfTlbs, pTlbInfo, appended>>
             ELSE \E MaxAddressibleIdSharingTlb \in {MaxAddressibleIdSharingTlbOf(regs)} :
                  \E TlbShift \in {Tools_CreateTopologyShift(MaxAddressibleIdSharingTlb)} :
                  \E TlbMask \in {SharingMask(TlbShift)} :
                  \E TlbId \in {BitAnd(ApicIdList[ProcessorIndex + 1], TlbMask)} :
                  \E found \in {ParseTlb_Internal_FindMatchingTlbEntry(
                                    pTlbInfo, NumberOfTlbs, TlbId, regs)} :
                     LET TlbIndex == IF found = INVALID_TLB_INDEX THEN NumberOfTlbs ELSE found
                         added == IF found = INVALID_TLB_INDEX
                                  THEN Append(pTlbInfo, NewTlbEntry(TlbId, TlbMask, regs))
                                  ELSE pTlbInfo
                     IN /\ shiftCalls' = shiftCalls \cup {ValueOf(MaxAddressibleIdSharingTlb)}
                        /\ NumberOfTlbs' = (IF found = INVALID_TLB_INDEX
                                            THEN NumberOfTlbs + 1 ELSE NumberOfTlbs)
                        /\ \E outcome \in IF /\ found = INVALID_TLB_INDEX
                                             /\ NumberOfTlbs >= NumberOfProcessors * MAX_TLB_PER_LP
                                          THEN OutOfBoundsOutcomes ELSE {"inside"} :
                              IF outcome = "fault"
                              THEN /\ pc' = "fault"
                                   /\ UNCHANGED <<pTlbInfo, appended, SubleafIndex>>
                              ELSE /\ pc' = pc
                                   /\ pTlbInfo' = AppendTlbMember(added, TlbIndex,
                                                                  ApicIdList[ProcessorIndex + 1])
                                   /\ appended' = RecordAppended(appended, TlbIndex, regs)
                                   /\ SubleafIndex' = next
    /\ UNCHANGED <<fileVars, gatherVars, cmd, count, Shift, platformVars, CurrentProcessorAffinity,
                   Leaf, Subleaf, LogicalProcessorShift, PackageShift,
                   ApicidBitLayoutCtx, bFoundUnknownDomain, FoundTopologyInfo,
                   visited, ProcessorIndex, NumberOfProcessors, ApicIdList,
                   pCacheInfo, NumberOfCaches>>

\* SubleafIndex > MaxSubleaf ends the for loop: the next processor.
Tlb_EndProcessor ==
    /\ pc = "TlbSubleafLoop"
    /\ ~UnsignedLessEq(SubleafIndex, MaxSubleaf)
    /\ ProcessorIndex' = ProcessorIndex + 1
    /\ pc' = "TlbProcessorLoop"
    /\ UNCHANGED <<fileVars, gatherVars, cmd, count, Shift, platformVars, CurrentProcessorAffinity,
                   cpuVars, shiftCalls, SubleafIndex, MaxSubleaf,
                   NumberOfProcessors, ApicIdList, pCacheInfo, NumberOfCaches,
                   pTlbInfo, NumberOfTlbs, appended>>

\* The processor loop ends: Display_DisplayProcessorTlbs.
Tlb_Display ==
    /\ pc = "TlbProcessorLoop"
    /\ ~(ProcessorIndex < NumberOfProcessors)
    /\ pc' = "TlbDisplay"
    /\ UNCHANGED <<fileVars, gatherVars, cmd, count, Shift, platformVars, CurrentProcessorAffinity,
                   cpuVars, shiftCalls, groupVars>>

\* free(pTlbInfo) and the command is complete.
Tlb_Return ==
    /\ pc = "TlbDisplay"
    /\ pc' = "done"
    /\ UNCHANGED <<fileVars, gatherVars, cmd, count, Shift, platformVars, CurrentProcessorAffinity,
                   cpuVars, shiftCalls, groupVars>>

\* A leaf 18h subleaf: EDX[4:0] the TLB type, EDX[7:5] the level,
\* EDX[25:14] the sharing field; EAX is the maximum subleaf in subleaf 0.
TlbSubleaf(TlbType, TlbLevel, sharing, ebx, eax) ==
    [Eax |-> eax, Ebx |-> BitsOf(ebx), Ecx |-> BitsOf(64),
     Edx |-> BitOr(BitsOf(TlbType + 32 * TlbLevel + 16384 * sharing), {26})]

\* The subleaf kinds tried: <<type, level, sharing field, EBX>>.  The third
\* and the fourth differ in EBX only; the last two have the invalid type.
TlbKinds ==
    {<<1, 1, 0, 1>>, <<2, 1, 1, 1>>, <<3, 2, 1, 3>>, <<3, 2, 1, 7>>,
     <<0, 0, 0, 0>>, <<0, 1, 1, 1>>}

RECURSIVE TlbKindSequences(_)
TlbKindSequences(n) ==
    IF n = 0 THEN {<<>>}
    ELSE LET shorter == TlbKindSequences(n - 1)
         IN shorter \cup {Append(q, k) : q \in {x \in shorter : Len(x) = n - 1},
                                         k \in TlbKinds}

\* The table of the kinds q whose subleaf 0 reports the maximum subleaf
\* max (a word); the EAX of the other subleafs is not zero.
TlbTable(q, max) ==
    [i \in 1..Len(q) |->
        TlbSubleaf(q[i][1], q[i][2], q[i][3], q[i][4], IF i = 1 THEN max ELSE BitsOf(5))]

\* Tables whose maximum subleaf is the last recorded one, zero, or past the
\* recorded ones.
TlbTables ==
    {TlbTable(q, BitsOf(max)) :
        q \in TlbKindSequences(MaxTlbSubleafs) \ {<<>>},
        max \in 0..(MaxTlbSubleafs + 1)}

\* Tables of two subleafs of invalid type whose maximum subleaf is
\* 0xFFFFFFFF or 0xFFFFFFFE.
LargestMaxSubleafTables ==
    {TlbTable(<<<<0, 0, 0, 0>>, <<0, 1, 1, 1>>>>, max) :
        max \in {AllOnes, Decrement(AllOnes)}}

\* A fixed table: a private TLB and one shared by two identifiers.
PlainTlbTable == TlbTable(<<<<1, 1, 0, 1>>, <<3, 2, 1, 3>>>>, BitsOf(1))

\* The platforms of the TLB pass, as <<native, MaxLeaf, leaf 18h tables,
\* APIC ids>>.
TlbPlatforms ==
    {<<FALSE, 31, <<t, u>>, <<0, 1>>>> : t \in TlbTables, u \in {PlainTlbTable, <<>>}}
    \cup {<<FALSE, 31, <<t, t>>, <<0, 1>>>> : t \in TlbTables}
    \cup {<<TRUE, 24, <<t, t, t>>, <<0, 1, 2>>>> : t \in {PlainTlbTable}}
    \cup {<<native, 24, <<t, PlainTlbTable>>, <<0, 1>>>> :
            native \in BOOLEAN, t \in LargestMaxSubleafTables}
    \cup {<<FALSE, 4, <<PlainTlbTable>>, <<0>>>>, <<FALSE, 24, <<>>, <<>>>>}

InitTlb ==
    /\ cmd = "5"
    /\ pc = "TlbExample"
    /\ count = ZeroWord
    /\ Shift = 0
    /\ \E pl \in TlbPlatforms :
          /\ UseNativeCpuid = pl[1]
          /\ SimulatedCpuid = PlainLeaves(pl[2])
          /\ SimulatedCpuidLeaf4 = [p \in 1..Len(pl[4]) |-> <<>>]
          /\ SimulatedCpuidLeaf18 = pl[3]
          /\ SimulatedApicIds = [p \in 1..Len(pl[4]) |-> BitsOf(pl[4][p])]
          /\ NumberOfSimulatedProcessors = Len(pl[4])
    /\ CurrentProcessorAffinity = 0
    /\ IdleCpuLocals
    /\ IdleGroupLocals
    /\ IdleGatherLocals
    /\ IdleFileLocals

NextTlb ==
    \/ Tlb_Start
    \/ Tlb_NextProcessor
    \/ Tlb_Subleaf
    \/ Tlb_EndProcessor
    \/ Tlb_Display
    \/ Tlb_Return

\* The two grouping passes.
InitGrouping == InitCache \/ InitTlb

NextGrouping == NextCache \/ NextTlb

SpecGrouping == InitGrouping /\ [][NextGrouping]_vars

\* The program is sequential: while a step is possible it is taken.
FairSpecGrouping == SpecGrouping /\ WF_vars(NextGrouping)

\* ------------------------------------------------------------------------
\* Claims
\* ------------------------------------------------------------------------

\* ------------------------------------------------------------------------
\* The identifier gatherer: Tools_GatherPlatformApicIds
\* ------------------------------------------------------------------------

\* A loop that runs over every processor whatever the array holds.
GatherMore_IgnoresSize(index, n, size) == index < n

\* The loop condition: Index < NumberOfProcessors && Index < ArraySize.
GatherMore(index, n, size) == index < n /\ index < size

\* The entry: the processor count is clamped and CPUID.0 is read once.
Gather_Enter ==
    /\ cmd = "gather"
    /\ pc = "GatherPlatformApicIds"
    /\ NumberOfProcessors' = (IF Tools_GetNumberOfProcessors > MAX_PROCESSORS
                              THEN MAX_PROCESSORS ELSE Tools_GetNumberOfProcessors)
    /\ CpuidRegisters' = Tools_ReadCpuid(0, 0)
    /\ Index' = 0
    /\ pc' = "GatherLoop"
    /\ UNCHANGED <<fileVars, cmd, count, Shift, platformVars, CurrentProcessorAffinity,
                   Leaf, Subleaf, LogicalProcessorShift, PackageShift,
                   ApicidBitLayoutCtx, bFoundUnknownDomain, FoundTopologyInfo,
                   visited, shiftCalls, ProcessorIndex, SubleafIndex, MaxSubleaf,
                   ApicIdList, pCacheInfo, NumberOfCaches, pTlbInfo, NumberOfTlbs,
                   appended, pApicIdArray, ArraySize, strategies>>

\* One iteration: Tools_SetAffinity(Index), the identifier is found and
\* stored at pApicIdArray[Index].
Gather_Iterate ==
    /\ pc = "GatherLoop"
    /\ GatherMore(Index, NumberOfProcessors, ArraySize)
    /\ CurrentProcessorAffinity' = AffinityAfterSet(CurrentProcessorAffinity, Index)
    /\ pApicIdArray' =
          [i \in (DOMAIN pApicIdArray) \cup {Index} |->
              IF i = Index THEN GatheredApicId(CurrentProcessorAffinity, Index)
              ELSE pApicIdArray[i]]
    /\ strategies' = Append(strategies, GatherStrategy(CurrentProcessorAffinity, Index))
    /\ Index' = Index + 1
    /\ UNCHANGED <<fileVars, cmd, pc, count, Shift, platformVars, cpuVars, shiftCalls,
                   groupVars, ArraySize>>

\* The loop is left and Index is returned.
Gather_Return ==
    /\ pc = "GatherLoop"
    /\ ~GatherMore(Index, NumberOfProcessors, ArraySize)
    /\ pc' = "done"
    /\ UNCHANGED <<fileVars, gatherVars, cmd, count, Shift, platformVars,
                   CurrentProcessorAffinity, cpuVars, shiftCalls, groupVars>>

\* CPUID.1 with 5Ah in EBX[31:24].
GatherLeaf1 == [Leaf1(TRUE, 4) EXCEPT !.Ebx = BitOr(@, ShiftLeft(BitsOf(90), 24))]

\* A leaf 0Bh / 1Fh table whose subleaf 0 has EBX = 0.
EmptyTopoTable == <<TopoSubleaf(1, 1, 0, 0)>>

\* The platforms of the gatherer, as <<native, MaxLeaf, leaf 1Fh table,
\* leaf 0Bh table, processors, ArraySize>>: up to MaxGatherProcessors
\* processors, and a machine with more than MAX_PROCESSORS of them.
GatherPlatforms ==
    (BOOLEAN \X {1, 11, 31} \X {PlainTopoTable, EmptyTopoTable}
        \X {PlainTopoTable, EmptyTopoTable}
        \X (0..MaxGatherProcessors) \X (0..MaxGatherCapacity))
    \cup ({TRUE} \X {31} \X {PlainTopoTable} \X {PlainTopoTable}
            \X {MAX_PROCESSORS + 2} \X {MAX_PROCESSORS + 5})

InitGather ==
    /\ cmd = "gather"
    /\ pc = "GatherPlatformApicIds"
    /\ count = ZeroWord
    /\ Shift = 0
    /\ \E pl \in GatherPlatforms :
          /\ UseNativeCpuid = pl[1]
          /\ SimulatedCpuid = [l \in {0, 1, 11, 31} |->
                                  IF l = 0 THEN <<Leaf0(pl[2])>>
                                  ELSE IF l = 1 THEN <<GatherLeaf1>>
                                  ELSE IF l = 11 THEN pl[4]
                                  ELSE pl[3]]
          /\ SimulatedCpuidLeaf4 = <<>>
          /\ SimulatedCpuidLeaf18 = <<>>
          /\ SimulatedApicIds =
                [p \in 1..(IF pl[5] > MaxGatherProcessors + 1 THEN 0 ELSE pl[5]) |->
                    BitsOf(16 * p + 3)]
          /\ NumberOfSimulatedProcessors = pl[5]
          /\ ArraySize = pl[6]
    /\ CurrentProcessorAffinity = 0
    /\ IdleCpuLocals
    /\ IdleGroupLocals
    /\ pApicIdArray = <<>>
    /\ Index = 0
    /\ strategies = <<>>
    /\ IdleFileLocals

NextGather ==
    \/ Gather_Enter
    \/ Gather_Iterate
    \/ Gather_Return

SpecGather == InitGather /\ [][NextGather]_vars

\* ------------------------------------------------------------------------
\* Tools_SetAffinity and Tools_ReadCpuid called in any order
\* ------------------------------------------------------------------------

\* The processor numbers passed to Tools_SetAffinity: those of the
\* platform, the first ones past it and those around MAX_PROCESSORS.
AffinityArguments ==
    (0..(MaxAffinityProcessors + 1))
    \cup {MAX_PROCESSORS - 1, MAX_PROCESSORS, MAX_PROCESSORS + 1}

\* Tools_SetAffinity(ProcessorNumber) with any argument, kept in
\* ProcessorIndex as the caller's loop variable.
Affinity_Set ==
    /\ pc = "AffinityCalls"
    /\ \E ProcessorNumber \in AffinityArguments :
          /\ ProcessorIndex' = ProcessorNumber
          /\ CurrentProcessorAffinity' =
                AffinityAfterSet(CurrentProcessorAffinity, ProcessorNumber)
    /\ UNCHANGED <<fileVars, gatherVars, cmd, pc, count, Shift, platformVars, cpuVars, shiftCalls,
                   SubleafIndex, MaxSubleaf, NumberOfProcessors, ApicIdList,
                   pCacheInfo, NumberOfCaches, pTlbInfo, NumberOfTlbs, appended>>

\* Tools_ReadCpuid(Leaf, Subleaf, &CpuidRegisters) of a per-processor leaf
\* or of a leaf carrying the APIC id.
Affinity_Read ==
    /\ pc = "AffinityCalls"
    /\ \E l \in {1, 4, 11, 24, 31}, s \in {0, 1, MAX_SIMULATED_SUBLEAFS} :
          /\ Leaf' = l
          /\ Subleaf' = s
          /\ CpuidRegisters' = Tools_ReadCpuid(l, s)
    /\ UNCHANGED <<fileVars, gatherVars, cmd, pc, count, Shift, platformVars,
                   CurrentProcessorAffinity, LogicalProcessorShift, PackageShift,
                   ApicidBitLayoutCtx, bFoundUnknownDomain, FoundTopologyInfo,
                   visited, shiftCalls, groupVars>>

\* The simulated platforms the calls are made on: the numbers of
\* processors a loaded file can give.
AffinityPlatforms == (0..MaxAffinityProcessors) \cup {MAX_PROCESSORS}

InitAffinity ==
    /\ cmd = "affinity"
    /\ pc = "AffinityCalls"
    /\ count = ZeroWord
    /\ Shift = 0
    /\ UseNativeCpuid = FALSE
    /\ SimulatedCpuid = PlainLeaves(31)
    /\ \E n \in AffinityPlatforms :
          /\ NumberOfSimulatedProcessors = n
          /\ SimulatedApicIds = [p \in 1..n |-> BitsOf(16 * p + 3)]
          /\ SimulatedCpuidLeaf4 =
                [p \in 1..(IF n > MaxAffinityProcessors THEN 0 ELSE n) |->
                    <<CacheSubleaf(1, 1, 0, p)>>]
          /\ SimulatedCpuidLeaf18 =
                [p \in 1..(IF n > MaxAffinityProcessors THEN 0 ELSE n) |->
                    <<TlbSubleaf(1, 1, 0, p, ZeroWord)>>]
    /\ CurrentProcessorAffinity = 0
    /\ IdleCpuLocals
    /\ IdleGroupLocals
    /\ IdleGatherLocals
    /\ IdleFileLocals

NextAffinity ==
    \/ Affinity_Set
    \/ Affinity_Read

SpecAffinity == InitAffinity /\ [][NextAffinity]_vars

\* ------------------------------------------------------------------------
\* Saving a trace: File_WriteCpuidToFile
\* ------------------------------------------------------------------------

\* A line of the file: "L" with the leaf, "S" with the subleaf and its
\* registers, "A" with the APIC id; the numbers are words.
FileLine(tag, value, regs) == [tag |-> tag, value |-> value, regs |-> regs]

\* The do-while loop of File_Internal_WriteLeafToFile from CurrentSubleaf
\* on, with the affinity aff: one "S" line per subleaf read.  Leaf 4 goes
\* on while EAX[4:0] is not 0, leaf 18h while the next subleaf is at most
\* the EAX of subleaf 0, leaf 0Bh and 1Fh while EBX is not 0.
RECURSIVE SubleafLines(_, _, _, _)
SubleafLines(aff, LeafNumber, CurrentSubleaf, OriginalEax) ==
    LET r == ReadCpuidOn(aff, LeafNumber, BitsOf(CurrentSubleaf))
        first == IF CurrentSubleaf = 0 THEN r.Eax ELSE OriginalEax
        NextSubleaf ==
            IF LeafNumber = 4 THEN BitAnd(r.Eax, BitsOf(31)) # ZeroWord
            ELSE IF LeafNumber = 24
                 THEN UnsignedLessEq(BitsOf(CurrentSubleaf + 1), first)
                 ELSE IF LeafNumber \in {11, 31} THEN r.Ebx # ZeroWord
                      ELSE FALSE
    IN <<FileLine("S", BitsOf(CurrentSubleaf), r)>>
       \o (IF NextSubleaf
           THEN SubleafLines(aff, LeafNumber, CurrentSubleaf + 1, first)
           ELSE <<>>)

\* File_Internal_WriteLeafToFile(&FileWriteContext, LeafNumber)
File_Internal_WriteLeafToFile(aff, LeafNumber) ==
    <<FileLine("L", BitsOf(LeafNumber), ZeroRegisters)>>
    \o SubleafLines(aff, LeafNumber, 0, ZeroWord)

\* for (Index ...) { Tools_SetAffinity(Index); File_Internal_WriteLeafToFile }
RECURSIVE PerProcessorLeafLines(_, _, _, _)
PerProcessorLeafLines(aff, LeafNumber, index, n) ==
    IF index >= n THEN <<>>
    ELSE File_Internal_WriteLeafToFile(AffinityAfterSet(aff, index), LeafNumber)
         \o PerProcessorLeafLines(AffinityAfterSet(aff, index), LeafNumber, index + 1, n)

\* File_WriteCpuidToFile up to its APIC id loop: fopen, CPUID.0 read into
\* CpuidRegisters, and the leaves 0, 1, 4 (per processor), 0Bh, 18h (per
\* processor) and 1Fh written as far as the maximum leaf allows.  When
\* fopen fails nothing is written.
FileWrite_Start ==
    /\ cmd = "w"
    /\ pc = "WriteCpuidToFile"
    /\ \E opened \in BOOLEAN :
          IF opened
          THEN LET r0 == Tools_ReadCpuid(0, 0)
                   n == Tools_GetNumberOfProcessors
                   has(l) == UnsignedLessEq(BitsOf(l), r0.Eax)
                   aff4 == IF has(4)
                           THEN AffinityAfterGather(CurrentProcessorAffinity, 0, n)
                           ELSE CurrentProcessorAffinity
                   aff18 == IF has(24) THEN AffinityAfterGather(aff4, 0, n) ELSE aff4
               IN /\ CpuidRegisters' = r0
                  /\ MaximumLeaf' = r0.Eax
                  /\ NumberOfProcessors' = n
                  /\ CpuidFile' =
                        File_Internal_WriteLeafToFile(CurrentProcessorAffinity, 0)
                        \o (IF has(1)
                            THEN File_Internal_WriteLeafToFile(CurrentProcessorAffinity, 1)
                            ELSE <<>>)
                        \o (IF has(4)
                            THEN PerProcessorLeafLines(CurrentProcessorAffinity, 4, 0, n)
                            ELSE <<>>)
                        \o (IF has(11) THEN File_Internal_WriteLeafToFile(aff4, 11) ELSE <<>>)
                        \o (IF has(24) THEN PerProcessorLeafLines(aff4, 24, 0, n) ELSE <<>>)
                        \o (IF has(31) THEN File_Internal_WriteLeafToFile(aff18, 31) ELSE <<>>)
                  /\ CurrentProcessorAffinity' = aff18
                  /\ Index' = 0
                  /\ pc' = "FileApicLoop"
          ELSE /\ pc' = "done"
               /\ UNCHANGED <<CpuidRegisters, MaximumLeaf, NumberOfProcessors, CpuidFile,
                              CurrentProcessorAffinity, Index>>
    /\ UNCHANGED <<cmd, count, Shift, platformVars, Leaf, Subleaf,
                   LogicalProcessorShift, PackageShift, ApicidBitLayoutCtx,
                   bFoundUnknownDomain, FoundTopologyInfo, visited, shiftCalls,
                   ProcessorIndex, SubleafIndex, MaxSubleaf, ApicIdList, pCacheInfo,
                   NumberOfCaches, pTlbInfo, NumberOfTlbs, appended,
                   pApicIdArray, ArraySize, strategies, apicLineLeaves>>

\* One iteration of the APIC id loop: Tools_SetAffinity(Index), then leaf
\* 0Bh or leaf 1 is read into CpuidRegisters, chosen by the EAX that
\* CpuidRegisters holds, and the "A" line is written.
FileWrite_ApicLine ==
    /\ pc = "FileApicLoop"
    /\ Index < NumberOfProcessors
    /\ LET at == AffinityAfterSet(CurrentProcessorAffinity, Index)
           useB == UnsignedLessEq(BitsOf(11), CpuidRegisters.Eax)
           r == ReadCpuidOn(at, IF useB THEN 11 ELSE 1, ZeroWord)
           ApicId == IF useB THEN r.Edx ELSE ShiftRight(r.Ebx, 24)
       IN /\ CurrentProcessorAffinity' = at
          /\ CpuidRegisters' = r
          /\ CpuidFile' = Append(CpuidFile, FileLine("A", ApicId, ZeroRegisters))
          /\ apicLineLeaves' = Append(apicLineLeaves, IF useB THEN 11 ELSE 1)
    /\ Index' = Index + 1
    /\ UNCHANGED <<cmd, pc, count, Shift, platformVars, Leaf, Subleaf,
                   LogicalProcessorShift, PackageShift, ApicidBitLayoutCtx,
                   bFoundUnknownDomain, FoundTopologyInfo, visited, shiftCalls,
                   groupVars, pApicIdArray, ArraySize, strategies, MaximumLeaf>>

\* The loop is left: fclose and the file is written.
FileWrite_Close ==
    /\ pc = "FileApicLoop"
    /\ ~(Index < NumberOfProcessors)
    /\ pc' = "done"
    /\ UNCHANGED <<fileVars, gatherVars, cmd, count, Shift, platformVars,
                   CurrentProcessorAffinity, cpuVars, shiftCalls, groupVars>>

\* Leaf 0Bh / 1Fh as processors report it: EAX is the shift alone, the
\* reserved bits EAX[31:5] being 0.
HardwareTopoTable ==
    <<[TopoSubleaf(1, 1, 2, 0) EXCEPT !.Eax = BitsOf(1)],
      [TopoSubleaf(2, 2, 4, 1) EXCEPT !.Eax = BitsOf(2)]>>

\* The machines a trace is saved on, as <<MaxLeaf, CPUID.1 EAX, leaf 0Bh
\* and 1Fh table, processors>>; CPUID.1 EAX is 0 or the signature 306A9h.
FilePlatforms ==
    {0, 1, 4, 10, 11, 24, 31} \X {0, 198313}
       \X {PlainTopoTable, HardwareTopoTable} \X (0..MaxFileProcessors)

InitFile ==
    /\ cmd = "w"
    /\ pc = "WriteCpuidToFile"
    /\ count = ZeroWord
    /\ Shift = 0
    /\ UseNativeCpuid = TRUE
    /\ \E pl \in FilePlatforms :
          /\ SimulatedCpuid = [l \in {0, 1, 11, 31} |->
                                  IF l = 0 THEN <<Leaf0(pl[1])>>
                                  ELSE IF l = 1
                                       THEN <<[Leaf1(TRUE, 4) EXCEPT !.Eax = BitsOf(pl[2])]>>
                                       ELSE pl[3]]
          /\ SimulatedCpuidLeaf4 = [p \in 1..pl[4] |-> PlainCacheTable]
          /\ SimulatedCpuidLeaf18 = [p \in 1..pl[4] |-> PlainTlbTable]
          /\ SimulatedApicIds = [p \in 1..pl[4] |-> BitsOf(16 * p + 3)]
          /\ NumberOfSimulatedProcessors = pl[4]
    /\ CurrentProcessorAffinity = 0
    /\ IdleCpuLocals
    /\ IdleGroupLocals
    /\ IdleGatherLocals
    /\ IdleFileLocals

NextFile ==
    \/ FileWrite_Start
    \/ FileWrite_ApicLine
    \/ FileWrite_Close

SpecFile == InitFile /\ [][NextFile]_vars

\* ------------------------------------------------------------------------
\* Claims about the shift calculator
\* ------------------------------------------------------------------------

\* C1: for every count in [1, 1000000] Tools_CreateTopologyShift(count)
\* returns the smallest s with (1 << s) >= count: (1 << s) >= count, and
\* (1 << (s-1)) < count when count > 1.
C1_SmallestShift ==
    (cmd = "shift" /\ pc = "done") =>
        LET c == ValueOf(count) IN
        /\ Shift \in 0..31
        /\ 2^Shift >= c
        /\ (c > 1 => 2^(Shift - 1) < c)

\* The calculator has run on a count that is not a power of two (3 -> 2)
\* and on the largest count of the claim.
C1_Witness ==
    /\ cmd = "shift"
    /\ pc = "done"
    /\ \/ (ValueOf(count) = 3 /\ Shift = 2)
       \/ (ValueOf(count) = 1000000 /\ Shift = 20)

\* ------------------------------------------------------------------------
\* Claims about the topology decoders
\* ------------------------------------------------------------------------

\* The register fields read arithmetically.
ShiftField(r) == ValueOf(r.Eax) % 32

TypeField(r) == (ValueOf(r.Ecx) \div 256) % 256

\* The bits 16..31 of a word as a number.
HighHalf(w) == ValueOf({b - 16 : b \in {x \in w : x >= 16}})

SetMax(S) == CHOOSE x \in S : \A y \in S : y <= x

SetMin(S) == CHOOSE x \in S : \A y \in S : x <= y

\* What the query primitive answers for subleaf j of the leaf being decoded.
Entry(j) == Tools_ReadCpuid(Leaf, j)

\* The first subleaf of the leaf being decoded whose EBX is zero.
EnumeratedCount ==
    SetMin({k \in 0..MAX_SIMULATED_SUBLEAFS : Entry(k).Ebx = ZeroWord})

\* C2: every call of the shift calculator made by the legacy decoders is
\* made with a count of at least 1, whatever CPUID.1 EBX[23:16] and
\* CPUID.4.0 EAX[31:26] hold.
C2_CountAtLeastOne == \A c \in shiftCalls : c >= 1

\* C3: for a sequence whose first subleaf has a known domain type, the
\* many-domain decoder ends with one level per known-type subleaf, in order,
\* with that subleaf's type and with the shift of the last subleaf of its
\* run (the subleaf and the unknown-type subleafs that follow it).
C3_ManyDomainLevels ==
    (/\ pc = "ManyDomainDisplay"
     /\ EnumeratedCount > 0
     /\ TypeField(Entry(0)) \in 0..6) =>
        LET k == EnumeratedCount
            known == {j \in 0..(k - 1) : TypeField(Entry(j)) \in 0..6}
            rank(j) == Cardinality({x \in known : x < j})
            runEnd(j) == SetMin({x \in known : x > j} \cup {k}) - 1
        IN /\ ApicidBitLayoutCtx.PackageDomainIndex = Cardinality(known)
           /\ \A j \in known :
                 /\ ApicidBitLayoutCtx.ShiftValueDomain[rank(j)] = TypeField(Entry(j))
                 /\ ApicidBitLayoutCtx.ShiftValues[rank(j)] = ShiftField(Entry(runEnd(j)))

\* LP/1, Unknown(99)/2, Core/3 decoded to LP@2, Core@3.
C3_Witness ==
    /\ pc = "ManyDomainDisplay"
    /\ EnumeratedCount = 3
    /\ <<TypeField(Entry(0)), ShiftField(Entry(0))>> = <<1, 1>>
    /\ <<TypeField(Entry(1)), ShiftField(Entry(1))>> = <<99, 2>>
    /\ <<TypeField(Entry(2)), ShiftField(Entry(2))>> = <<2, 3>>
    /\ ApicidBitLayoutCtx.PackageDomainIndex = 2
    /\ ApicidBitLayoutCtx.ShiftValueDomain[0] = 1
    /\ ApicidBitLayoutCtx.ShiftValues[0] = 2
    /\ ApicidBitLayoutCtx.ShiftValueDomain[1] = 2
    /\ ApicidBitLayoutCtx.ShiftValues[1] = 3

UnknownEnumerated ==
    \E j \in 0..(EnumeratedCount - 1) : TypeField(Entry(j)) \notin 0..6

\* C23: the first layout of the full-layout decoder has one level per
\* enumerated subleaf, in subleaf order, with the subleaf's type and shift
\* as read; the decoder goes on from that layout to the collapsing pass
\* exactly when some enumerated subleaf has a type outside 0..6.
C23_FullLayoutThenCollapse ==
    /\ [](pc = "TopologyBitsDisplay" =>
             /\ ApicidBitLayoutCtx.PackageDomainIndex = EnumeratedCount
             /\ \A j \in 0..(EnumeratedCount - 1) :
                   /\ ApicidBitLayoutCtx.ShiftValueDomain[j] = TypeField(Entry(j))
                   /\ ApicidBitLayoutCtx.ShiftValues[j] = ShiftField(Entry(j)))
    /\ [](pc \in {"TopologyBitsCollapseLoop", "TopologyBitsCollapsedDisplay"} =>
             UnknownEnumerated)
    /\ [][pc = "TopologyBitsDisplay" =>
             IF UnknownEnumerated
             THEN pc' = "TopologyBitsCollapseLoop" /\ Leaf' = Leaf
             ELSE pc' \in {"TopologyBitsEnter", "LegacyTopologyBits"}]_vars

\* LP/1, Unknown(99)/2, Core/3 laid out as three levels, the unknown type
\* kept, with the collapsing pass to follow.
C23_Witness ==
    /\ pc = "TopologyBitsDisplay"
    /\ EnumeratedCount = 3
    /\ <<TypeField(Entry(0)), ShiftField(Entry(0))>> = <<1, 1>>
    /\ <<TypeField(Entry(1)), ShiftField(Entry(1))>> = <<99, 2>>
    /\ <<TypeField(Entry(2)), ShiftField(Entry(2))>> = <<2, 3>>
    /\ ApicidBitLayoutCtx.PackageDomainIndex = 3
    /\ ApicidBitLayoutCtx.ShiftValueDomain[1] = 99
    /\ ApicidBitLayoutCtx.ShiftValues[1] = 2
    /\ bFoundUnknownDomain

\* The positions inside the three-domain, many-domain and full-layout
\* decoders.
DecoderStates ==
    {"ThreeDomainEnter", "ThreeDomainLoop", "ThreeDomainDisplay",
     "ManyDomainEnter", "ManyDomainLoop", "ManyDomainDisplay",
     "TopologyBitsEnter", "TopologyBitsLoop", "TopologyBitsDisplay",
     "TopologyBitsCollapseLoop", "TopologyBitsCollapsedDisplay"}

\* Leaf l is supported and its subleaf 0 reports a nonzero EBX.
LeafAnswers(l) ==
    /\ l <= ValueOf(ReadCpuidOn(0, 0, ZeroWord).Eax)
    /\ ReadCpuidOn(CurrentProcessorAffinity, l, ZeroWord).Ebx # ZeroWord

\* C24: a decoder of leaf 0Bh / 1Fh runs only with a leaf that CPUID.0 EAX
\* reports as supported, whatever the maximum leaf; the topology command
\* goes straight to the legacy decoder exactly when neither leaf is
\* supported with a nonzero first subleaf, and the layout command exactly
\* when the maximum leaf is below 0Bh.
C24_DecodersOnSupportedLeaf ==
    /\ [](pc \in DecoderStates =>
             /\ Leaf \in {11, 31}
             /\ Leaf <= ValueOf(ReadCpuidOn(0, 0, ZeroWord).Eax))
    /\ [][pc = "AllTopologyFromCpuid" =>
             (pc' = "LegacyExample" <=> ~(LeafAnswers(31) \/ LeafAnswers(11)))]_vars
    /\ [][pc = "ApicIdTopologyLayout" =>
             (pc' = "LegacyTopologyBits" <=> ValueOf(ReadCpuidOn(0, 0, ZeroWord).Eax) < 11)]_vars

\* The maximum leaf is 0Ah while leaf 0Bh holds a table: the topology
\* command is in the legacy decoder with nothing found.
C24_Witness ==
    /\ cmd = "1"
    /\ pc = "LegacyExample"
    /\ FoundTopologyInfo = 0
    /\ ReadCpuidOn(0, 0, ZeroWord).Eax = BitsOf(10)
    /\ ReadCpuidOn(0, 11, ZeroWord).Ebx # ZeroWord
    /\ ReadCpuidOn(0, 31, ZeroWord).Ebx # ZeroWord

\* C9: the three-domain decoder ends with the package shift of the last
\* enumerated subleaf, whatever its type, and with the logical-processor
\* shift of the last subleaf of type LogicalProcessor, 0 when there is none.
C9_ThreeDomainShifts ==
    pc = "ThreeDomainDisplay" =>
        LET k == EnumeratedCount
            lp == {j \in 0..(k - 1) : TypeField(Entry(j)) = 1}
        IN /\ PackageShift = (IF k = 0 THEN 0 ELSE ShiftField(Entry(k - 1)))
           /\ LogicalProcessorShift =
                 (IF lp = {} THEN 0 ELSE ShiftField(Entry(SetMax(lp))))

\* Two LogicalProcessor subleafs with shifts 1 and 2, then a subleaf of
\* another type with shift 4.
C9_Witness ==
    /\ pc = "ThreeDomainDisplay"
    /\ Subleaf = 3
    /\ <<TypeField(Entry(0)), ShiftField(Entry(0))>> = <<1, 1>>
    /\ <<TypeField(Entry(1)), ShiftField(Entry(1))>> = <<1, 2>>
    /\ TypeField(Entry(2)) # 1
    /\ LogicalProcessorShift = 2
    /\ PackageShift = 4

\* C10: both legacy decoders yield 0 and 0 with CPUID.1 EDX[28] clear;
\* shift(P / C) for the threads and shift(P) for the package with it set and
\* a maximum leaf of at least 4; shift(P) for both with it set and a smaller
\* maximum leaf, P being CPUID.1 EBX[23:16] and C CPUID.4.0 EAX[31:26] + 1.
C10_LegacyShifts ==
    LET htt == 28 \in Tools_ReadCpuid(1, 0).Edx
        P == HighHalf(Tools_ReadCpuid(1, 0).Ebx) % 256
        C == (HighHalf(Tools_ReadCpuid(4, 0).Eax) \div 1024) + 1
        leaf4 == ValueOf(Tools_ReadCpuid(0, 0).Eax) >= 4
        package == IF htt THEN Tools_CreateTopologyShift(BitsOf(P)) ELSE 0
        thread == IF htt /\ leaf4 THEN Tools_CreateTopologyShift(BitsOf(P \div C))
                  ELSE package
    IN /\ pc = "LegacyDisplay" =>
            /\ PackageShift = package
            /\ LogicalProcessorShift = thread
       /\ pc = "LegacyBitsDisplay" =>
            IF htt /\ leaf4
            THEN /\ ApicidBitLayoutCtx.PackageDomainIndex = 2
                 /\ ApicidBitLayoutCtx.ShiftValues[0] = thread
                 /\ ApicidBitLayoutCtx.ShiftValues[1] = package
            ELSE /\ ApicidBitLayoutCtx.PackageDomainIndex = 1
                 /\ ApicidBitLayoutCtx.ShiftValues[0] = package

\* P = 4 and C = 2 on the leaf 4 branch: 1 thread bit, 2 package bits.
C10_Witness ==
    /\ pc = "LegacyDisplay"
    /\ 28 \in Tools_ReadCpuid(1, 0).Edx
    /\ HighHalf(Tools_ReadCpuid(1, 0).Ebx) % 256 = 4
    /\ HighHalf(Tools_ReadCpuid(4, 0).Eax) \div 1024 = 1
    /\ LogicalProcessorShift = 1
    /\ PackageShift = 2

\* C28: whatever CPUID.1 and CPUID.4 hold, the legacy decoders end with a
\* logical-processor shift not above the package shift, so that the
\* thread, core and package fields of the identifier do not overlap.
C28_LegacyThreadBelowPackage ==
    /\ pc = "LegacyDisplay" => LogicalProcessorShift <= PackageShift
    /\ (pc = "LegacyBitsDisplay" /\ ApicidBitLayoutCtx.PackageDomainIndex = 2) =>
          ApicidBitLayoutCtx.ShiftValues[0] <= ApicidBitLayoutCtx.ShiftValues[1]

\* C29: for a sequence of at least one subleaf whose first subleaf has a
\* known type, the last level the many-domain decoder ends with has the
\* shift of the last enumerated subleaf, which is also the package shift
\* the three-domain decoder ended with on the same leaf.
C29_PackageBoundaryKept ==
    /\ (pc = "ThreeDomainDisplay" /\ EnumeratedCount > 0) =>
          PackageShift = ShiftField(Entry(EnumeratedCount - 1))
    /\ (/\ pc = "ManyDomainDisplay"
        /\ EnumeratedCount > 0
        /\ TypeField(Entry(0)) \in 0..6) =>
          /\ ApicidBitLayoutCtx.PackageDomainIndex >= 1
          /\ ApicidBitLayoutCtx.ShiftValues[ApicidBitLayoutCtx.PackageDomainIndex - 1]
                = ShiftField(Entry(EnumeratedCount - 1))
          /\ ApicidBitLayoutCtx.ShiftValues[ApicidBitLayoutCtx.PackageDomainIndex - 1]
                = PackageShift

\* LP/1, Core/3, Unknown(200)/4: two levels, the last one Core with the
\* shift 4 of the unknown subleaf, and a package shift of 4.
C29_Witness ==
    /\ pc = "ManyDomainDisplay"
    /\ EnumeratedCount = 3
    /\ <<TypeField(Entry(0)), ShiftField(Entry(0))>> = <<1, 1>>
    /\ <<TypeField(Entry(1)), ShiftField(Entry(1))>> = <<2, 3>>
    /\ <<TypeField(Entry(2)), ShiftField(Entry(2))>> = <<200, 4>>
    /\ ApicidBitLayoutCtx.PackageDomainIndex = 2
    /\ ApicidBitLayoutCtx.ShiftValueDomain[1] = 2
    /\ ApicidBitLayoutCtx.ShiftValues[1] = 4
    /\ PackageShift = 4

\* The leaf the dispatcher decodes: 1Fh when present and populated, else
\* 0Bh.
TopologyLeaf ==
    IF UnsignedLessEq(BitsOf(31), Tools_ReadCpuid(0, 0).Eax)
    THEN (IF Tools_ReadCpuid(31, 0).Ebx # ZeroWord THEN 31 ELSE 11)
    ELSE 11

\* The platform is the uniform system with 2^t threads per core and 2^c
\* cores per package, for the legacy decoder and for the modern one.
UniformSystem(t, c) ==
    /\ UnsignedLessEq(BitsOf(11), Tools_ReadCpuid(0, 0).Eax)
    /\ 28 \in Tools_ReadCpuid(1, 0).Edx
    /\ HighHalf(Tools_ReadCpuid(1, 0).Ebx) % 256 = 2^(t + c)
    /\ HighHalf(Tools_ReadCpuid(4, 0).Eax) \div 1024 = 2^c - 1
    /\ LET r0 == Tools_ReadCpuid(TopologyLeaf, 0)
           r1 == Tools_ReadCpuid(TopologyLeaf, 1)
       IN /\ r0.Ebx # ZeroWord /\ TypeField(r0) = 1 /\ ShiftField(r0) = t
          /\ r1.Ebx # ZeroWord /\ TypeField(r1) = 2 /\ ShiftField(r1) = t + c
    /\ Tools_ReadCpuid(TopologyLeaf, 2).Ebx = ZeroWord

\* C11: on a uniform system with 2^t threads per core and 2^c cores per
\* package the three-domain decoder and the legacy decoder both end with
\* a thread shift of t and a package shift of t + c.
C11_DecodersAgree ==
    pc \in {"ThreeDomainDisplay", "LegacyDisplay"} =>
        \A t \in 0..4, c \in 0..4 :
            UniformSystem(t, c) =>
                /\ LogicalProcessorShift = t
                /\ PackageShift = t + c

\* 2 threads per core and 2 cores per package, after the legacy decoder
\* ran behind the three-domain one: shifts 1 and 2.
C11_Witness ==
    /\ UniformSystem(1, 1)
    /\ cmd = "1"
    /\ pc = "LegacyDisplay"
    /\ LogicalProcessorShift = 1
    /\ PackageShift = 2

\* The Domain Mask Matrix as built by the many-domain decoder, its number
\* of levels N and the lower boundary of level i: 0 for level 0, else the
\* cumulative shift of level i - 1.
MaskMatrix == ApicidBitLayoutCtx.DomainRelativeMasks

\* DomainRelativeMasks[i][j] of the zeroed 32 x 32 table.
MaskEntry(i, j) ==
    IF <<i, j>> \in DOMAIN MaskMatrix THEN MaskMatrix[<<i, j>>] ELSE ZeroWord

Levels == ApicidBitLayoutCtx.PackageDomainIndex

LowerBoundary(i) ==
    IF i = 0 THEN 0 ELSE ApicidBitLayoutCtx.ShiftValues[i - 1]

\* C12: once the matrix is built, entry (i,i) is the complement of
\* (1 << s) - 1 for every i in 0..N, s being the cumulative shift of level
\* i - 1 and 0 for i = 0: the bits s..31.
C12_DiagonalMasks ==
    pc = "ManyDomainDisplay" =>
        \A i \in 0..Levels :
            MaskMatrix[<<i, i>>] = {b \in BitPositions : b >= LowerBoundary(i)}

\* Levels LogicalProcessor@1 and Core@3: entry (0,0) is all ones, entry
\* (1,1) the bits 1..31 and the package entry (2,2) the bits 3..31.
C12_Witness ==
    /\ pc = "ManyDomainDisplay"
    /\ Levels = 2
    /\ ApicidBitLayoutCtx.ShiftValues[0] = 1
    /\ ApicidBitLayoutCtx.ShiftValues[1] = 3
    /\ MaskMatrix[<<0, 0>>] = 0..31
    /\ MaskMatrix[<<1, 1>>] = 1..31
    /\ MaskMatrix[<<2, 2>>] = 3..31

\* The cumulative shifts of the levels do not decrease.
NonDecreasingShifts ==
    \A k \in 0..(Levels - 2) :
        ApicidBitLayoutCtx.ShiftValues[k] <= ApicidBitLayoutCtx.ShiftValues[k + 1]

\* The bit field of level i: its diagonal mask below the next boundary,
\* and the whole diagonal mask for the package entry.
LevelField(i) ==
    IF i = Levels THEN MaskMatrix[<<i, i>>]
    ELSE {b \in MaskMatrix[<<i, i>>] : b < ApicidBitLayoutCtx.ShiftValues[i]}

\* C13: with non-decreasing cumulative shifts the bit fields of the levels
\* are pairwise disjoint, and the diagonal masks together cover every bit
\* of the identifier.
C13_FieldsDisjoint ==
    (pc = "ManyDomainDisplay" /\ NonDecreasingShifts) =>
        /\ \A i \in 0..Levels, j \in 0..Levels :
              i # j => LevelField(i) \cap LevelField(j) = {}
        /\ UNION {MaskMatrix[<<i, i>>] : i \in 0..Levels} = BitPositions
        /\ UNION {LevelField(i) : i \in 0..Levels}
              \subseteq UNION {MaskMatrix[<<i, i>>] : i \in 0..Levels}

\* Levels LogicalProcessor@1 and Core@3: the fields are bit 0, bits 1..2
\* and bits 3..31.
C13_Witness ==
    /\ pc = "ManyDomainDisplay"
    /\ Levels = 2
    /\ NonDecreasingShifts
    /\ LevelField(0) = {0}
    /\ LevelField(1) = {1, 2}
    /\ LevelField(2) = 3..31

\* C14: the level list the many-domain decoder ends with is in strictly
\* increasing order of cumulative shift, whatever subleafs were enumerated.
C14_IncreasingShifts ==
    pc = "ManyDomainDisplay" =>
        \A k \in 0..(Levels - 2) :
            ApicidBitLayoutCtx.ShiftValues[k] < ApicidBitLayoutCtx.ShiftValues[k + 1]

\* C17: whenever a collapsing loop is about to handle a subleaf, the index
\* it writes lies inside the 32-entry level table: below 32 for a known
\* domain type, and at least one level is already appended for an unknown
\* one.
C17_LevelIndexInBounds ==
    (pc \in {"ManyDomainLoop", "TopologyBitsCollapseLoop"}
        /\ CpuidRegisters.Ebx # ZeroWord) =>
        IF TypeField(CpuidRegisters) \in 0..6
        THEN Levels < MAXIMUM_DOMAINS
        ELSE Levels >= 1

\* C18: once the matrix is built, for i < j <= N entry (i,j) is entry
\* (i,i) without the bits of entry (j,j), that is the bits from the lower
\* boundary of level i up to but excluding the lower boundary of level j,
\* and no entry with i > j holds anything but zero.
C18_RelativeMasks ==
    pc = "ManyDomainDisplay" =>
        /\ \A i \in 0..Levels, j \in 0..Levels :
              i < j =>
                /\ MaskMatrix[<<i, j>>] = MaskMatrix[<<i, i>>] \ MaskMatrix[<<j, j>>]
                /\ MaskMatrix[<<i, j>>] =
                      {b \in BitPositions : LowerBoundary(i) <= b /\ b < LowerBoundary(j)}
        /\ \A i \in 0..(MAXIMUM_DOMAINS - 1), j \in 0..(MAXIMUM_DOMAINS - 1) :
              i > j => MaskEntry(i, j) = ZeroWord

\* Levels LogicalProcessor@1 and Core@3: LogicalProcessor relative to Core
\* is bit 0, Core relative to the package bits 1..2, LogicalProcessor
\* relative to the package bits 0..2.
C18_Witness ==
    /\ pc = "ManyDomainDisplay"
    /\ Levels = 2
    /\ MaskMatrix[<<0, 1>>] = {0}
    /\ MaskMatrix[<<1, 2>>] = {1, 2}
    /\ MaskMatrix[<<0, 2>>] = {0, 1, 2}

\* ------------------------------------------------------------------------
\* Claims about the identifier gatherer
\* ------------------------------------------------------------------------

\* The maximum leaf, and what the leaves 1Fh, 0Bh and 1 answer on
\* processor i.
MaxLeafReported == ValueOf(ReadCpuidOn(0, 0, ZeroWord).Eax)

TopByte(w) == {b - 24 : b \in {x \in w : x >= 24}}

\* The leaf the identifier of processor i has to come from, and the
\* identifier itself.
ExpectedStrategy(i) ==
    IF MaxLeafReported >= 31 /\ ReadCpuidOn(i, 31, ZeroWord).Ebx # ZeroWord THEN 31
    ELSE IF MaxLeafReported >= 11 /\ ReadCpuidOn(i, 11, ZeroWord).Ebx # ZeroWord THEN 11
    ELSE 1

ExpectedApicId(i) ==
    IF ExpectedStrategy(i) = 1 THEN TopByte(ReadCpuidOn(i, 1, ZeroWord).Ebx)
    ELSE ReadCpuidOn(i, ExpectedStrategy(i), ZeroWord).Edx

\* Entry i is looked at when it has just been written and again, with all
\* the others, when the gatherer has returned.
JustWrittenOrReturned(i) ==
    IF pc = "done" THEN TRUE ELSE i = Index - 1

\* C15: the gatherer binds the affinity to each index in turn and stores
\* for it the identifier of the first strategy that succeeds: leaf 1Fh
\* subleaf 0 EDX when the maximum leaf is at least 1Fh and its EBX is not
\* zero, else leaf 0Bh subleaf 0 EDX under the same conditions, else the
\* top 8 bits of CPUID.1 EBX; no index is left without an identifier.
C15_FirstStrategyWins ==
    cmd = "gather" =>
        /\ Len(strategies) = Cardinality(DOMAIN pApicIdArray)
        /\ (pc = "GatherLoop" /\ Index > 0) => CurrentProcessorAffinity = Index - 1
        /\ \A i \in DOMAIN pApicIdArray :
              JustWrittenOrReturned(i) =>
                /\ strategies[i + 1] = ExpectedStrategy(i)
                /\ pApicIdArray[i] = ExpectedApicId(i)
        /\ pc = "done" => DOMAIN pApicIdArray = 0..(Index - 1)

\* Leaf 1Fh is supported but does not enumerate, leaf 0Bh does: the
\* three processors get their identifiers from leaf 0Bh.
C15_Witness ==
    /\ cmd = "gather"
    /\ pc = "done"
    /\ MaxLeafReported = 31
    /\ ReadCpuidOn(0, 31, ZeroWord).Ebx = ZeroWord
    /\ strategies = <<11, 11, 11>>
    /\ ~UseNativeCpuid
    /\ pApicIdArray[2] = SimulatedApicIds[3]

\* The smallest of the processor count, the capacity and MAX_PROCESSORS.
GatherExpected ==
    IF Tools_GetNumberOfProcessors <= ArraySize
    THEN (IF Tools_GetNumberOfProcessors <= MAX_PROCESSORS
          THEN Tools_GetNumberOfProcessors ELSE MAX_PROCESSORS)
    ELSE (IF ArraySize <= MAX_PROCESSORS THEN ArraySize ELSE MAX_PROCESSORS)

\* C16: the gatherer returns n = min(processor count, capacity, 1024),
\* has written exactly the entries 0..n-1, entry i being the identifier of
\* logical processor i, and never writes at an index >= n or >= capacity.
C16_GatherWithinCapacity ==
    cmd = "gather" =>
        /\ \A i \in DOMAIN pApicIdArray :
              /\ i < ArraySize
              /\ i < MAX_PROCESSORS
              /\ i < Tools_GetNumberOfProcessors
              /\ JustWrittenOrReturned(i) => pApicIdArray[i] = ExpectedApicId(i)
        /\ DOMAIN pApicIdArray = 0..(Index - 1)
        /\ pc = "done" =>
              /\ Index = GatherExpected
              /\ Index <= ArraySize

\* Three processors and an array of two entries: two entries are written
\* and 2 is returned.
C16_Witness ==
    /\ cmd = "gather"
    /\ pc = "done"
    /\ NumberOfSimulatedProcessors = 3
    /\ ArraySize = 2
    /\ Index = 2
    /\ DOMAIN pApicIdArray = {0, 1}

\* C26: on a simulated platform the gatherer returns, for every processor
\* index below the processor count, the identifier of that processor: the
\* simulated APIC id recorded for it when the entry was taken from leaf
\* 1Fh or leaf 0Bh, and the low 8 bits of that APIC id when it was taken
\* from CPUID.1.
C26_SimulatedIdsIdentify ==
    (cmd = "gather" /\ pc = "done" /\ ~UseNativeCpuid) =>
        \A i \in DOMAIN pApicIdArray :
           pApicIdArray[i] =
              (IF strategies[i + 1] \in {11, 31}
               THEN SimulatedApicIds[i + 1]
               ELSE BitAnd(SimulatedApicIds[i + 1], BitsOf(255)))

\* ------------------------------------------------------------------------
\* Claims about saving a trace
\* ------------------------------------------------------------------------

\* C30: every "A" line of a saved trace is derived by the method the
\* maximum leaf read once from CPUID.0 selects: leaf 0Bh subleaf 0 EDX of
\* the processor when the maximum leaf is at least 0Bh, else CPUID.1
\* EBX[31:24] of the processor; the method of a processor does not depend
\* on the registers read for the processor before it.
C30_OneMethodForAllLines ==
    (cmd = "w" /\ pc \in {"FileApicLoop", "done"}) =>
        \A i \in DOMAIN apicLineLeaves :
           IF UnsignedLessEq(BitsOf(11), MaximumLeaf)
           THEN /\ apicLineLeaves[i] = 11
                /\ CpuidFile[Len(CpuidFile) - Len(apicLineLeaves) + i].value
                      = ReadCpuidOn(i - 1, 11, ZeroWord).Edx
           ELSE /\ apicLineLeaves[i] = 1
                /\ CpuidFile[Len(CpuidFile) - Len(apicLineLeaves) + i].value
                      = ShiftRight(ReadCpuidOn(i - 1, 1, ZeroWord).Ebx, 24)

\* ------------------------------------------------------------------------
\* Claims about the affinity
\* ------------------------------------------------------------------------

\* C25: on a simulated platform Tools_SetAffinity with a processor number
\* not below the number of simulated processors leaves the affinity as it
\* was; so the affinity is always below the processor count (0 when there
\* is no processor) and below MAX_PROCESSORS, the first dimension of the
\* leaf 4, leaf 18h and APIC id tables that Tools_ReadCpuid indexes by it.
C25_AffinityInBounds ==
    /\ [](~UseNativeCpuid =>
             /\ NumberOfSimulatedProcessors <= MAX_PROCESSORS
             /\ CurrentProcessorAffinity < MAX_PROCESSORS
             /\ IF NumberOfSimulatedProcessors = 0
                THEN CurrentProcessorAffinity = 0
                ELSE CurrentProcessorAffinity < NumberOfSimulatedProcessors)
    /\ [][(/\ ~UseNativeCpuid
           /\ pc = "AffinityCalls"
           /\ ProcessorIndex' >= NumberOfSimulatedProcessors) =>
             CurrentProcessorAffinity' = CurrentProcessorAffinity]_vars

\* Two simulated processors: the affinity was set to processor 1, a call
\* with processor number 3 was ignored, and leaf 4 was read from the
\* table of processor 1.
C25_Witness ==
    /\ cmd = "affinity"
    /\ ~UseNativeCpuid
    /\ NumberOfSimulatedProcessors = 2
    /\ ProcessorIndex = 3
    /\ CurrentProcessorAffinity = 1
    /\ Leaf = 4
    /\ Subleaf = 0
    /\ CpuidRegisters = SimulatedCpuidLeaf4[2][1]

\* ------------------------------------------------------------------------
\* Claims about the cache and TLB passes
\* ------------------------------------------------------------------------

\* The groups of the pass that runs, field names apart.
Groups ==
    IF cmd = "6"
    THEN [g \in 1..Len(pCacheInfo) |->
            [id |-> pCacheInfo[g].CacheId,
             mask |-> pCacheInfo[g].CacheMask,
             members |-> pCacheInfo[g].ListOfApicIDsSharingThisCache,
             counted |-> pCacheInfo[g].NumberOfLPsSharingThisCache,
             snapshot |-> pCacheInfo[g].CachedCpuidRegisters]]
    ELSE [g \in 1..Len(pTlbInfo) |->
            [id |-> pTlbInfo[g].TlbId,
             mask |-> pTlbInfo[g].TlbMask,
             members |-> pTlbInfo[g].ListOfApicIDsSharingThisTlb,
             counted |-> pTlbInfo[g].NumberOfLPsSharingThisTlb,
             snapshot |-> pTlbInfo[g].CachedCpuidRegisters]]

GroupsAfter == Groups'

\* The number of identifiers a sharing field f stands for rounded up to a
\* power of two, as the lowest identifier bit that tells two groups apart.
SharingBits(f) == SetMin({b \in 0..12 : 2^b >= f + 1})

\* The identifier the subleaf about to be processed gives the processor in
\* turn: its APIC id with the low SharingBits cleared.
DerivedId(apic, f) == {b \in apic : b >= SharingBits(f)}

\* The subleaf a pass is about to process, as <<registers, group id>>; the
\* cache pass holds it in CpuidRegisters, the TLB pass reads it in the step.
SubleafInTurn ==
    IF cmd = "6"
    THEN <<CpuidRegisters,
           DerivedId(ApicIdList[ProcessorIndex + 1],
                     (HighHalf(CpuidRegisters.Eax) * 4 + ValueOf(CpuidRegisters.Eax \cap {14, 15}) \div 16384) % 4096)>>
    ELSE LET r == [ReadCpuidOn(CurrentProcessorAffinity, 24, SubleafIndex)
                      EXCEPT !.Eax = ZeroWord]
         IN <<r, DerivedId(ApicIdList[ProcessorIndex + 1],
                           (HighHalf(r.Edx) * 4 + ValueOf(r.Edx \cap {14, 15}) \div 16384) % 4096)>>

\* C4: every identifier recorded in a group has the group's id under the
\* group's mask and was appended for a subleaf whose four registers are
\* the group's stored ones; the member count is the number of identifiers
\* recorded.
C4_MembersMatchGroup ==
    /\ Len(appended) = Len(Groups)
    /\ \A g \in DOMAIN Groups :
          /\ Groups[g].counted = Len(Groups[g].members)
          /\ Len(appended[g]) = Len(Groups[g].members)
          /\ \A m \in DOMAIN Groups[g].members :
                /\ Groups[g].members[m] \cap Groups[g].mask = Groups[g].id
                /\ appended[g][m] = Groups[g].snapshot

\* Two groups with the same id and different registers, one of them with
\* the identifiers of two processors.
C4_Witness ==
    \E g, h \in DOMAIN Groups :
        /\ g # h
        /\ Groups[g].id = Groups[h].id
        /\ Groups[g].snapshot # Groups[h].snapshot
        /\ Len(Groups[g].members) = 2
        /\ Groups[g].members[1] # Groups[g].members[2]

\* C5: no two groups have the same id and the same registers, and a step
\* that processes a subleaf whose id and registers are those of a group
\* adds no group, adds exactly one member to that group and leaves the
\* other groups as they are.
C5_NoDuplicateGroup ==
    [][/\ \A g, h \in DOMAIN GroupsAfter :
             (/\ GroupsAfter[g].id = GroupsAfter[h].id
              /\ GroupsAfter[g].snapshot = GroupsAfter[h].snapshot) => g = h
       /\ (/\ pc \in {"CacheSubleafLoop", "TlbSubleafLoop"}
           /\ pc' = pc
           /\ ProcessorIndex' = ProcessorIndex
           /\ \E g \in DOMAIN Groups : /\ Groups[g].id = SubleafInTurn[2]
                                      /\ Groups[g].snapshot = SubleafInTurn[1]) =>
             /\ Len(GroupsAfter) = Len(Groups)
             /\ NumberOfCaches' = NumberOfCaches
             /\ NumberOfTlbs' = NumberOfTlbs
             /\ \A g \in DOMAIN Groups :
                   IF /\ Groups[g].id = SubleafInTurn[2]
                      /\ Groups[g].snapshot = SubleafInTurn[1]
                   THEN /\ GroupsAfter[g].counted = Groups[g].counted + 1
                        /\ GroupsAfter[g].members =
                              Append(Groups[g].members, ApicIdList[ProcessorIndex + 1])
                   ELSE GroupsAfter[g] = Groups[g]
      ]_vars

\* The second processor reported the subleafs of the first: one group with
\* both identifiers, and no second group.
C5_Witness ==
    /\ pc \in {"CacheDisplay", "TlbDisplay"}
    /\ NumberOfProcessors = 2
    /\ Len(Groups) = 1
    /\ Groups[1].counted = 2
    /\ Groups[1].members = <<ZeroWord, {0}>>

\* C19: in every step of a pass each existing group keeps its position,
\* id, mask and registers, and its member list either stays or gets one
\* identifier appended at its end; no group disappears, at most one group
\* is added, at the end and with the processor in turn as first member,
\* and the processor index never decreases.
C19_GroupsOnlyGrow ==
    [][/\ Len(GroupsAfter) \in {Len(Groups), Len(Groups) + 1}
       /\ \A g \in DOMAIN Groups :
             /\ GroupsAfter[g].id = Groups[g].id
             /\ GroupsAfter[g].mask = Groups[g].mask
             /\ GroupsAfter[g].snapshot = Groups[g].snapshot
             /\ Len(GroupsAfter[g].members) \in
                   {Len(Groups[g].members), Len(Groups[g].members) + 1}
             /\ SubSeq(GroupsAfter[g].members, 1, Len(Groups[g].members))
                   = Groups[g].members
       /\ Len(GroupsAfter) = Len(Groups) + 1 =>
             /\ GroupsAfter[Len(GroupsAfter)].members = <<ApicIdList[ProcessorIndex + 1]>>
             /\ \A g \in DOMAIN Groups : GroupsAfter[g] = Groups[g]
       /\ ProcessorIndex' >= ProcessorIndex
      ]_vars

\* Two groups in the order of their discovery: the first was found on
\* processor 0 and later joined by processor 1, the second was found on
\* processor 1.
C19_Witness ==
    /\ pc \in {"CacheDisplay", "TlbDisplay"}
    /\ Len(Groups) = 2
    /\ Len(ApicIdList) = 2
    /\ Groups[1].members = <<ApicIdList[1], ApicIdList[2]>>
    /\ Groups[2].members = <<ApicIdList[2]>>
    /\ ApicIdList[1] # ApicIdList[2]

\* The leaf 4 subleaf j of processor p, and the first subleaf of p whose
\* kind tag EAX[4:0] is 0.
CacheSubleafOf(p, j) == ReadCpuidOn(p, 4, BitsOf(j))

FirstTerminator(p) ==
    SetMin({j \in 0..Len(ProcessorTable(SimulatedCpuidLeaf4, p)) :
               CacheSubleafOf(p, j).Eax \cap (0..4) = {}})

\* The subleafs grouped for the processors before p.
RECURSIVE GroupedBefore(_)
GroupedBefore(p) ==
    IF p = 0 THEN 0 ELSE GroupedBefore(p - 1) + FirstTerminator(p - 1)

\* The members recorded in the groups 1..g.
RECURSIVE MembersUpTo(_)
MembersUpTo(g) ==
    IF g = 0 THEN 0 ELSE MembersUpTo(g - 1) + Len(Groups[g].members)

\* Each recorded member with the registers it was appended for.
GroupedPairs ==
    UNION {{<<Groups[g].members[i], appended[g][i]>> :
                i \in 1..Len(Groups[g].members)} : g \in DOMAIN Groups}

\* C20: the cache pass groups, for each processor and with the affinity
\* bound to it, the leaf 4 subleafs 0..k-1 and nothing else, k being the
\* first subleaf whose kind tag is 0: in the subleaf loop the registers
\* in turn are those of the processor in turn, the subleaf index is at
\* most k and one member was recorded per subleaf passed; at the end the
\* members are exactly the subleafs before each processor's terminator.
C20_GroupsUpToTerminator ==
    /\ (cmd = "6" /\ pc = "CacheSubleafLoop") =>
          /\ CurrentProcessorAffinity = ProcessorIndex
          /\ ValueOf(SubleafIndex) <= FirstTerminator(ProcessorIndex)
          /\ CpuidRegisters = CacheSubleafOf(ProcessorIndex, ValueOf(SubleafIndex))
          /\ MembersUpTo(Len(Groups)) = GroupedBefore(ProcessorIndex) + ValueOf(SubleafIndex)
    /\ (cmd = "6" /\ pc = "CacheDisplay") =>
          /\ MembersUpTo(Len(Groups)) = GroupedBefore(NumberOfProcessors)
          /\ GroupedPairs =
                UNION {{<<ApicIdList[p + 1], CacheSubleafOf(p, j)>> :
                            j \in 0..(FirstTerminator(p) - 1)} :
                       p \in 0..(NumberOfProcessors - 1)}

\* Processor 0 reports a terminator and then a data cache, processor 1 a
\* private L1 and a shared L2: nothing is grouped for processor 0, even
\* though its subleaf 1 is a cache, and two subleafs for processor 1.
C20_Witness ==
    /\ cmd = "6"
    /\ pc = "CacheDisplay"
    /\ NumberOfProcessors = 2
    /\ FirstTerminator(0) = 0
    /\ CacheSubleafOf(0, 1).Eax \cap (0..4) # {}
    /\ FirstTerminator(1) = 2
    /\ MembersUpTo(Len(Groups)) = 2
    /\ \A g \in DOMAIN Groups : Groups[g].members = <<ApicIdList[2]>>

\* The leaf 18h subleaf j of processor p as the pass compares it, EAX
\* cleared, and the maximum subleaf the subleaf 0 of p reports.
TlbSubleafOf(p, j) == [ReadCpuidOn(p, 24, BitsOf(j)) EXCEPT !.Eax = ZeroWord]

TlbMaxSubleafOf(p) == ReadCpuidOn(p, 24, ZeroWord).Eax

\* The subleafs of p of a valid type (EDX[4:0] # 0) below the word limit.
ValidTlbSubleafsBelow(p, limit) ==
    {j \in 0..(Len(ProcessorTable(SimulatedCpuidLeaf18, p)) - 1) :
        /\ BitsOf(j) # limit
        /\ UnsignedLessEq(BitsOf(j), limit)
        /\ TlbSubleafOf(p, j).Edx \cap (0..4) # {}}

\* The valid subleafs of p among 0..M, M the maximum subleaf of p.
ValidTlbSubleafs(p) ==
    IF TlbMaxSubleafOf(p) = AllOnes
    THEN ValidTlbSubleafsBelow(p, AllOnes)
    ELSE ValidTlbSubleafsBelow(p, Increment(TlbMaxSubleafOf(p)))

\* The subleafs grouped for the processors before p.
RECURSIVE TlbGroupedBefore(_)
TlbGroupedBefore(p) ==
    IF p = 0 THEN 0
    ELSE TlbGroupedBefore(p - 1) + Cardinality(ValidTlbSubleafs(p - 1))

TlbGroupIdOf(p, j) ==
    DerivedId(ApicIdList[p + 1],
              (HighHalf(TlbSubleafOf(p, j).Edx) * 4
               + ValueOf(TlbSubleafOf(p, j).Edx \cap {14, 15}) \div 16384) % 4096)

\* The groups holding the identifier of p with these registers and id.
GroupsHolding(p, regs, id) ==
    {g \in DOMAIN Groups :
        /\ Groups[g].snapshot = regs
        /\ Groups[g].id = id
        /\ \E i \in DOMAIN Groups[g].members : Groups[g].members[i] = ApicIdList[p + 1]}

\* C22: the snapshot of every TLB group has EAX = 0, and at the end of the
\* pass two grouped subleafs that are equal but for EAX and give the same
\* group id are in one and the same group.
C22_EaxNeverGroups ==
    cmd = "5" =>
       /\ \A g \in DOMAIN pTlbInfo : pTlbInfo[g].CachedCpuidRegisters.Eax = ZeroWord
       /\ pc = "TlbDisplay" =>
             \A p, q \in 0..(NumberOfProcessors - 1) :
                \A j \in ValidTlbSubleafs(p), k \in ValidTlbSubleafs(q) :
                   (/\ TlbSubleafOf(p, j) = TlbSubleafOf(q, k)
                    /\ TlbGroupIdOf(p, j) = TlbGroupIdOf(q, k)) =>
                      /\ GroupsHolding(p, TlbSubleafOf(p, j), TlbGroupIdOf(p, j)) # {}
                      /\ GroupsHolding(p, TlbSubleafOf(p, j), TlbGroupIdOf(p, j))
                            = GroupsHolding(q, TlbSubleafOf(q, k), TlbGroupIdOf(q, k))
                      /\ Cardinality(GroupsHolding(p, TlbSubleafOf(p, j), TlbGroupIdOf(p, j))) = 1

\* Subleaf 0 of processor 0 and subleaf 1 of processor 1 differ in EAX
\* only (the maximum subleaf against a stale value) and are shared by the
\* two identifiers: one group holds both processors.
C22_Witness ==
    /\ cmd = "5"
    /\ pc = "TlbDisplay"
    /\ NumberOfProcessors = 2
    /\ 0 \in ValidTlbSubleafs(0)
    /\ 1 \in ValidTlbSubleafs(1)
    /\ ReadCpuidOn(0, 24, BitsOf(0)).Eax # ReadCpuidOn(1, 24, BitsOf(1)).Eax
    /\ TlbSubleafOf(0, 0) = TlbSubleafOf(1, 1)
    /\ \E g \in DOMAIN Groups :
          /\ Groups[g].snapshot = TlbSubleafOf(0, 0)
          /\ Groups[g].members = <<ApicIdList[1], ApicIdList[2]>>
          /\ ApicIdList[1] # ApicIdList[2]

\* The processors a pass has scanned, the one in turn included.
ProcessorsScanned ==
    IF pc \in {"CacheSubleafLoop", "TlbSubleafLoop", "fault"}
    THEN ProcessorIndex + 1
    ELSE ProcessorIndex

\* C27: the member count of every group is at most the number of
\* processors scanned, and so at most the MAX_PROCESSORS entries of the
\* member list: a processor is recorded once per group at most, also when
\* two of its subleafs hold the same registers.
C27_MembersOncePerGroup ==
    cmd \in {"5", "6"} =>
       \A g \in DOMAIN Groups :
          /\ Groups[g].counted <= ProcessorsScanned
          /\ Groups[g].counted <= MAX_PROCESSORS

\* C6: the number of groups of a pass never exceeds the number of entries
\* allocated, NumberOfProcessors * MAX_CACHE_PER_LP for the caches and
\* NumberOfProcessors * MAX_TLB_PER_LP for the TLBs.
C6_WithinCapacity ==
    /\ NumberOfCaches <= NumberOfProcessors * MAX_CACHE_PER_LP
    /\ NumberOfTlbs <= NumberOfProcessors * MAX_TLB_PER_LP

\* C7: a cache pass and a TLB pass come to their end, whatever the tables.
C7_PassEnds == <>(pc \in {"done", "fault"})

====
